---------------------------- MODULE Spec2Model ----------------------------
(***************************************************************************)
(* A model of the token dashboard's price pipeline:                        *)
(*   - the /api/token-price aggregator        (src/app/api/token-price)    *)
(*   - the stream's fetchTokenData aggregator (src/unnamed/part_001)       *)
(*   - the /chart route and its TTL cache     (src/unnamed/part_000)       *)
(*   - the SSE stream session                 (src/unnamed/part_001)       *)
(*                                                                         *)
(* Three specifications share the module: SpecAgg (both aggregators        *)
(* applied to one combination of upstream outcomes), SpecChart (the cache  *)
(* and the /chart handler) and SpecStream (one stream session).  A pair's  *)
(* h24 is the 24 h change field the route at hand reads.                   *)
(***************************************************************************)
EXTENDS Integers, Sequences, FiniteSets, TLC

VARIABLES
    \* ---- SpecAgg
    up,          \* the upstream outcomes of the request under study
    priceResp,   \* the response of GET /api/token-price, or NoResp
    fetched,     \* what the last call of fetchTokenData gave, or NoFetch
    \* ---- SpecChart
    cache,       \* the Map of part_000, as a sequence in insertion order
    now,         \* Date.now(), in ms
    chartReqs,   \* /chart requests suspended at `await fetch`
    chartResp,   \* the last /chart response sent
    lastPut,     \* history: per address, the last value setCachedData stored
    \* ---- SpecStream
    pc,          \* position of start(controller)
    isClosed, pollInterval, keepAliveInterval, abortListener, aborted,
    controllerClosed,
    lastData,    \* the session's last sent snapshot
    events,      \* the frames enqueued on the controller, in order
    inflight,    \* ids of the polls suspended at `await fetchTokenData`
    pollsStarted, \* number of polls started so far
    \* ---- SpecClient (createTokenSSEStream of jupiter-client.ts)
    eventSource, \* "null", or the readyState of the current EventSource
    sseIsClosed, \* the closure's isClosed flag
    reconnectTimeout,  \* delay of the pending reconnect timer, 0 when none
    reconnectAttempts,
    calls,       \* how often each callback has been invoked
    terminalErrors,    \* how many of the onError calls were the terminal one
    refreshing,  \* fetches started by `refresh` events and not yet settled
    liveSources, \* history: EventSource objects created and not yet closed
    pendingTimers,     \* history: reconnect timers armed, not fired or cleared
    connectionStatus,  \* the consumer's state that the callbacks set
    \* ---- SpecConsumer (WaifuTracker / useTokenStream)
    consumer,    \* which of the two consumers this instance is
    contractAddress,   \* the tracked address
    tokenData,   \* the TokenState, or NoToken
    lastUpdateRef,     \* time of the last accepted stream update
    updateCount,
    clientNow,   \* Date.now() in the browser, in ms
    fetching,    \* addresses of the fetches in flight
    delivered,   \* history: what the last step handed to the consumer
    \* ---- SpecEmotion (the classification functions of waifu-tracker.tsx)
    sample,      \* the inputs under study
    verdict,     \* what each function gave on them, "none" before it ran
    \* ---- SpecScheduler (scheduleMessage / generateMessage of WaifuTracker)
    schedNow,    \* Date.now() in the browser, in ms
    lastMessageAtRef, lastMessageEmotionRef, pendingEmotionRef,
    messageTimerRef,   \* the handle setTimeout gave, NoTimer when null
    timers,      \* the timeouts set and neither fired nor cleared
    timerSeq,    \* number of timeouts set so far
    messages,    \* the chat list
    generating,  \* ids of the generateMessage calls suspended at `await fetch`
    announced,   \* history: the generateMessage calls started and the
                 \* resets by an address change, in order
    lastCall,    \* history: argument of the latest scheduleMessage call
    quiet,       \* history: no scheduleMessage call or address change follows
    settled,     \* history: the generateMessage call that resumed last, and
                 \* the reply it resumed with
    \* ---- SpecGenerate (POST /api/generate-message)
    genReq,      \* the request and the upstream outcome under study
    genResp,     \* the response, or NoGenResp
    \* ---- SpecSessions (several sessions of the stream route, part_001)
    sessions,    \* per session: the address it polls and its next poll time
    sessNow,     \* Date.now() on the server, in ms
    rounds       \* history: the fetchTokenData calls made, in order

aggVars    == <<up, priceResp, fetched>>
chartVars  == <<cache, now, chartReqs, chartResp, lastPut>>
streamVars == <<pc, isClosed, pollInterval, keepAliveInterval, abortListener,
                aborted, controllerClosed, lastData, events, inflight,
                pollsStarted>>
clientVars == <<eventSource, sseIsClosed, reconnectTimeout, reconnectAttempts,
                calls, terminalErrors, refreshing, liveSources,
                pendingTimers, connectionStatus>>
consumerVars == <<consumer, contractAddress, tokenData, lastUpdateRef,
                  updateCount, clientNow, fetching, delivered>>
emotionVars == <<sample, verdict>>
schedVars == <<schedNow, lastMessageAtRef, lastMessageEmotionRef,
               pendingEmotionRef, messageTimerRef, timers, timerSeq, messages,
               generating, announced, lastCall, quiet, settled>>
genVars == <<genReq, genResp>>
sessionVars == <<sessions, sessNow, rounds>>
uiVars == <<emotionVars, schedVars, genVars, sessionVars>>
frontVars == <<clientVars, consumerVars, uiVars>>
vars == <<aggVars, chartVars, streamVars, frontVars>>

(***************************************************************************)
(* Raw JSON values.  A numeric field of an upstream body is either a       *)
(* number, absent (undefined), or something parseFloat cannot read.        *)
(***************************************************************************)
NULL  == "<null>"
Undef == [t |-> "undef", n |-> 0]
Junk  == [t |-> "junk", n |-> 0]
Num(n) == [t |-> "num", n |-> n]

\* parseFloat(x) || 0 : NaN (undefined, junk) and 0 both give 0.
ParseFloatOr0(x) == IF x.t = "num" THEN x.n ELSE 0

\* x !== undefined
Defined(x) == x.t # "undef"

\* s || null for a string field: the empty or absent string gives null.
OrNull(s) == IF s = "" THEN NULL ELSE s

\* a || b for two nullable strings.
OrElse(a, b) == IF a # NULL THEN a ELSE b

(***************************************************************************)
(* Upstream outcomes.  kind: "neterr" and "timeout" make fetch reject,     *)
(* "status" is a non-2xx answer, "badjson" makes response.json() reject,   *)
(* "ok" is a 2xx answer with a JSON body.                                  *)
(***************************************************************************)
FailKinds == {"neterr", "timeout", "status", "badjson"}

Pair(liq, price, h24, vol, sym, name, fdv, mcap) ==
    [liq |-> liq, priceUsd |-> price, h24 |-> h24, vol |-> vol,
     symbol |-> sym, name |-> name, fdv |-> fdv, marketCap |-> mcap]

DexFail(k, st) == [kind |-> k, status |-> st, pairs |-> <<>>]
DexOk(pairs)   == [kind |-> "ok", status |-> 200, pairs |-> pairs]
\* a non-2xx answer whose body would parse and holds pairs
DexErrorBody(st, pairs) == [kind |-> "status", status |-> st, pairs |-> pairs]

\* sortedPairs[0] of a stable sort by (liquidity?.usd || 0) descending: the
\* first pair, in the body's order, of maximal liquidity.
BestPair(pairs) ==
    pairs[CHOOSE i \in 1..Len(pairs) :
            /\ \A j \in 1..Len(pairs) :
                   ParseFloatOr0(pairs[j].liq) <= ParseFloatOr0(pairs[i].liq)
            /\ \A j \in 1..(i-1) :
                   ParseFloatOr0(pairs[j].liq) < ParseFloatOr0(pairs[i].liq)]

DexHasPairsAnyStatus(d) == Len(d.pairs) > 0

\* response.ok && data?.pairs && data.pairs.length > 0
DexHasPairs(d) == d.kind = "ok" /\ Len(d.pairs) > 0

JupFail(k)  == [kind |-> k, has |-> FALSE, price |-> Undef, change |-> Undef,
                vol |-> Undef, symbol |-> "", name |-> ""]
\* a 2xx body without data[tokenAddress]
JupNoData   == [kind |-> "ok", has |-> FALSE, price |-> Undef, change |-> Undef,
                vol |-> Undef, symbol |-> "", name |-> ""]
JupData(price, change, vol, sym, name) ==
    [kind |-> "ok", has |-> TRUE, price |-> price, change |-> change,
     vol |-> vol, symbol |-> sym, name |-> name]

\* response.ok && data?.data && data.data[tokenAddress]
JupHasData(j) == j.kind = "ok" /\ j.has

BirdFail(k) == [kind |-> k, success |-> FALSE, value |-> Undef, price |-> Undef]
BirdBody(success, value, price) ==
    [kind |-> "ok", success |-> success, value |-> value, price |-> price]

OvFail(k) == [kind |-> k, success |-> FALSE, change |-> Undef, vol |-> Undef]
\* success stands for overviewData?.success && overviewData.data
OvBody(success, change, vol) ==
    [kind |-> "ok", success |-> success, change |-> change, vol |-> vol]

\* The price read from a 2xx Birdeye body: data.value when the body says
\* success and has it, else data.price when it has that, else 0.
BirdeyePrice(b) ==
    IF b.success /\ Defined(b.value) THEN ParseFloatOr0(b.value)
    ELSE IF Defined(b.price) THEN ParseFloatOr0(b.price)
    ELSE 0

(***************************************************************************)
(* GET /api/token-price.  u is the request: its address, whether           *)
(* BIRDEYE_API_KEY is set, and what each upstream call would answer.       *)
(* queried lists the upstream calls made, in order.                        *)
(***************************************************************************)
PriceBody(success, source, price, change, vol, sym, name, queried) ==
    [status |-> 200, body |-> "data", success |-> success, source |-> source,
     price |-> price, change24h |-> change, volume24h |-> vol,
     tokenSymbol |-> sym, tokenName |-> name, queried |-> queried]

PriceBadRequest ==
    [status |-> 400, body |-> "error", success |-> FALSE, source |-> NULL,
     price |-> 0, change24h |-> 0, volume24h |-> 0,
     tokenSymbol |-> NULL, tokenName |-> NULL, queried |-> <<>>]

\* The response when no source yields a price.
PriceNoDataNotFound(sym, name, queried) ==
    [PriceBody(FALSE, NULL, 0, 0, 0, sym, name, queried) EXCEPT !.status = 404]
PriceNoData(sym, name, queried) ==
    PriceBody(FALSE, NULL, 0, 0, 0, sym, name, queried)

PriceBirdeyeUngated(u, dexSym, dexName, q) ==
    IF u.bird.kind # "ok"
         THEN PriceNoData(dexSym, dexName, Append(q, "birdeye"))
    ELSE LET price == BirdeyePrice(u.bird)
             q1    == Append(q, "birdeye")
         IN  IF price > 0
             THEN LET stats == u.ov.kind = "ok" /\ u.ov.success
                      change24h == IF stats THEN ParseFloatOr0(u.ov.change) ELSE 0
                      volume24h == IF stats THEN ParseFloatOr0(u.ov.vol) ELSE 0
                  IN  PriceBody(TRUE, "birdeye", price, change24h, volume24h,
                                dexSym, dexName, Append(q1, "overview"))
             ELSE PriceNoData(dexSym, dexName, q1)

\* Method 3 of GET: Birdeye, tried only with an API key.
PriceBirdeye(u, dexSym, dexName, q) ==
    IF ~u.key THEN PriceNoData(dexSym, dexName, q)
    ELSE IF u.bird.kind # "ok"
         THEN PriceNoData(dexSym, dexName, Append(q, "birdeye"))
    ELSE LET price == BirdeyePrice(u.bird)
             q1    == Append(q, "birdeye")
         IN  IF price > 0
             THEN LET stats == u.ov.kind = "ok" /\ u.ov.success
                      change24h == IF stats THEN ParseFloatOr0(u.ov.change) ELSE 0
                      volume24h == IF stats THEN ParseFloatOr0(u.ov.vol) ELSE 0
                  IN  PriceBody(TRUE, "birdeye", price, change24h, volume24h,
                                dexSym, dexName, Append(q1, "overview"))
             ELSE PriceNoData(dexSym, dexName, q1)

\* tokenSymbol / tokenName of a Jupiter result.
PriceJupiterFieldOwnFirst(dexField, ownField) == OrElse(ownField, dexField)
PriceJupiterField(dexField, ownField) == OrElse(dexField, ownField)

\* Method 2 of GET: Jupiter.
PriceJupiter(u, dexSym, dexName, q) ==
    LET q1 == Append(q, "jupiter")
    IN  IF ~JupHasData(u.jup) THEN PriceBirdeye(u, dexSym, dexName, q1)
        ELSE LET price == ParseFloatOr0(u.jup.price)
                 change24h == ParseFloatOr0(u.jup.change)
                 volume24h == ParseFloatOr0(u.jup.vol)
                 tokenSymbol == OrNull(u.jup.symbol)
                 tokenName == OrNull(u.jup.name)
             IN  IF price > 0
                 THEN PriceBody(TRUE, "jupiter", price, change24h, volume24h,
                                PriceJupiterField(dexSym, tokenSymbol),
                                PriceJupiterField(dexName, tokenName), q1)
                 ELSE PriceBirdeye(u, dexSym, dexName, q1)

\* Method 1 of GET: DexScreener.
PriceDexScreener(u) ==
    LET q1 == <<"dexscreener">>
    IN  IF ~DexHasPairs(u.dex) THEN PriceJupiter(u, NULL, NULL, q1)
        ELSE LET bestPair == BestPair(u.dex.pairs)
                 price == ParseFloatOr0(bestPair.priceUsd)
                 change24h == ParseFloatOr0(bestPair.h24)
                 volume24h == ParseFloatOr0(bestPair.vol)
                 tokenSymbol == OrNull(bestPair.symbol)
                 tokenName == OrNull(bestPair.name)
             IN  IF price > 0
                 THEN PriceBody(TRUE, "dexscreener", price, change24h,
                                volume24h, tokenSymbol, tokenName, q1)
                 ELSE PriceJupiter(u, tokenSymbol, tokenName, q1)

PriceGET(u) ==
    IF u.addr = "" THEN PriceBadRequest ELSE PriceDexScreener(u)

(***************************************************************************)
(* fetchTokenData of the stream route.  price, change24h, volume24h and    *)
(* supply are variables of the whole function: a method that does not      *)
(* assign one of them leaves what an earlier method wrote.                 *)
(***************************************************************************)
FetchReturn(price, change, vol, supply, source, queried) ==
    [thrown |-> FALSE, price |-> price, change24h |-> change,
     volume24h |-> vol, supply |-> supply, decimals |-> 9,
     source |-> source, queried |-> queried]

\* throw new Error('No price data available from any source')
FetchThrow(queried) ==
    [thrown |-> TRUE, price |-> 0, change24h |-> 0, volume24h |-> 0,
     supply |-> 0, decimals |-> 9, source |-> NULL, queried |-> queried]

\* supply from the best pair: fdv / price, else marketCap / price.  The model's
\* fdv and marketCap values are multiples of its prices, so \div is exact.
DexSupply(bestPair, price) ==
    IF ParseFloatOr0(bestPair.fdv) # 0 /\ price > 0
    THEN ParseFloatOr0(bestPair.fdv) \div price
    ELSE IF ParseFloatOr0(bestPair.marketCap) # 0 /\ price > 0
    THEN ParseFloatOr0(bestPair.marketCap) \div price
    ELSE 0

\* Method 3 of fetchTokenData.  v holds the function's variables.
FetchBirdeye(u, v, q) ==
    IF ~u.key THEN FetchThrow(q)
    ELSE IF u.bird.kind # "ok" THEN FetchThrow(Append(q, "birdeye"))
    ELSE LET q1 == Append(q, "birdeye")
             \* price is assigned only when the body has value or price
             price == IF (u.bird.success /\ Defined(u.bird.value))
                         \/ Defined(u.bird.price)
                      THEN BirdeyePrice(u.bird) ELSE v.price
         IN  IF price > 0
             THEN LET stats == u.ov.kind = "ok" /\ u.ov.success
                      change24h == IF stats THEN ParseFloatOr0(u.ov.change)
                                   ELSE v.change24h
                      volume24h == IF stats THEN ParseFloatOr0(u.ov.vol)
                                   ELSE v.volume24h
                  IN  FetchReturn(price, change24h, volume24h, v.supply,
                                  "birdeye", Append(q1, "overview"))
             ELSE FetchThrow(q1)

\* Method 2 of fetchTokenData.
FetchJupiter(u, v, q) ==
    LET q1 == Append(q, "jupiter")
    IN  IF ~JupHasData(u.jup) THEN FetchBirdeye(u, v, q1)
        ELSE LET price == ParseFloatOr0(u.jup.price)
                 change24h == ParseFloatOr0(u.jup.change)
                 volume24h == ParseFloatOr0(u.jup.vol)
             IN  IF price > 0
                 THEN FetchReturn(price, change24h, volume24h, v.supply,
                                  "jupiter", q1)
                 ELSE FetchBirdeye(u, [v EXCEPT !.price = price,
                                                !.change24h = change24h,
                                                !.volume24h = volume24h], q1)

\* Method 1 of fetchTokenData.
FetchDexScreener(u) ==
    LET q1 == <<"dexscreener">>
        v0 == [price |-> 0, change24h |-> 0, volume24h |-> 0, supply |-> 0]
    IN  IF ~DexHasPairs(u.dex) THEN FetchJupiter(u, v0, q1)
        ELSE LET bestPair == BestPair(u.dex.pairs)
                 price == ParseFloatOr0(bestPair.priceUsd)
                 change24h == ParseFloatOr0(bestPair.h24)
                 volume24h == ParseFloatOr0(bestPair.vol)
                 supply == DexSupply(bestPair, price)
             IN  IF price > 0
                 THEN FetchReturn(price, change24h, volume24h, supply,
                                  "dexscreener", q1)
                 ELSE FetchJupiter(u, [price |-> price, change24h |-> change24h,
                                       volume24h |-> volume24h,
                                       supply |-> supply], q1)

fetchTokenData(u) == FetchDexScreener(u)

(***************************************************************************)
(* The upstream outcomes the aggregators are run on.                       *)
(***************************************************************************)
DexPrices   == {Undef, Num(-1), Num(0), Num(2)}
DexStats    == {<<Undef, Undef>>, <<Num(7), Num(3)>>}
\* symbol, name, fdv, marketCap of a pair
DexProfiles == {<<"", "", Undef, Undef>>, <<"DS", "DN", Num(8), Undef>>,
                <<"DS", "", Undef, Num(6)>>}

PoolPair(price, st, pr) ==
    Pair(Num(5), price, st[1], st[2], pr[1], pr[2], pr[3], pr[4])

\* A second pair of the body, of liquidity liq.
Decoy(liq) == Pair(liq, Num(1), Num(1), Num(1), "XS", "XN", Num(4), Undef)

DexBodies ==
    {<<>>}
    \cup {<<PoolPair(p, st, pr)>> : p \in DexPrices, st \in DexStats,
                                    pr \in DexProfiles}
    \cup UNION {{<<PoolPair(p, <<Num(7), Num(3)>>, <<"DS", "DN", Num(8), Undef>>), Decoy(Num(5))>>,
                 <<PoolPair(p, <<Num(7), Num(3)>>, <<"DS", "DN", Num(8), Undef>>), Decoy(Num(9))>>,
                 <<Decoy(Num(5)), PoolPair(p, <<Num(7), Num(3)>>, <<"DS", "DN", Num(8), Undef>>)>>}
                    : p \in DexPrices}

DexOutcomes ==
    {DexFail(k, 500) : k \in FailKinds} \cup {DexOk(b) : b \in DexBodies}
    \cup {DexErrorBody(429, <<PoolPair(Num(2), <<Num(7), Num(3)>>,
                                       <<"DS", "DN", Num(8), Undef>>)>>)}

JupOutcomes ==
    {JupFail(k) : k \in FailKinds} \cup {JupNoData}
    \cup {JupData(p, st[1], st[2], m[1], m[2]) :
            p \in {Undef, Num(0), Num(3)},
            st \in {<<Undef, Undef>>, <<Num(6), Num(2)>>},
            m \in {<<"", "">>, <<"JS", "JN">>, <<"JS", "">>}}

BirdOutcomes ==
    {BirdFail(k) : k \in FailKinds}
    \cup {BirdBody(TRUE, Num(5), Undef), BirdBody(TRUE, Num(0), Undef),
          BirdBody(TRUE, Junk, Undef), BirdBody(TRUE, Undef, Num(5)),
          BirdBody(FALSE, Num(5), Undef), BirdBody(FALSE, Undef, Num(5)),
          BirdBody(FALSE, Undef, Undef)}

OvOutcomes ==
    {OvFail(k) : k \in FailKinds}
    \cup {OvBody(FALSE, Num(9), Num(4)), OvBody(TRUE, Num(9), Num(4)),
          OvBody(TRUE, Undef, Undef)}

Request(addr, key, dex, jup, bird, ov) ==
    [addr |-> addr, key |-> key, dex |-> dex, jup |-> jup, bird |-> bird,
     ov |-> ov]

\* Without BIRDEYE_API_KEY the Birdeye answers are held at ones that would
\* yield a price; without an address the upstream is held at one outcome.
AggInputs ==
    {Request("A", TRUE, d, j, b, o) :
        d \in DexOutcomes, j \in JupOutcomes, b \in BirdOutcomes, o \in OvOutcomes}
    \cup {Request("A", FALSE, d, j, BirdBody(TRUE, Num(5), Undef),
                  OvBody(TRUE, Num(9), Num(4))) :
            d \in DexOutcomes, j \in JupOutcomes}
    \cup {Request("", k, DexOk(<<PoolPair(Num(2), <<Num(7), Num(3)>>,
                                          <<"DS", "DN", Num(8), Undef>>)>>),
                  JupNoData, BirdFail("neterr"), OvFail("neterr")) :
            k \in BOOLEAN}

NoResp  == [PriceBadRequest EXCEPT !.status = 0, !.body = "none"]
NoFetch == [FetchThrow(<<>>) EXCEPT !.source = "none"]

(***************************************************************************)
(* The /chart route (part_000): a module-level Map with a TTL and a        *)
(* capacity.  The Map is a sequence of entries in insertion order.         *)
(* MaxEntries stands for the route's capacity of 100 entries, scaled down  *)
(* so that overflow is reached; the time advances in steps of TickMs.      *)
(***************************************************************************)
CACHE_TTL   == 5000
MaxEntries  == 2
TickMs      == 2500
MaxNow      == 2 * TickMs
MaxInflight == 2

Addrs  == {"a1", "a2", "a3"}
NoAddr == ""    \* a request without ?address=

Entry(k, d, t) == [key |-> k, data |-> d, timestamp |-> t]

\* The result object of the route: price, priceChange24h, volume24h.
ChartData(price, change, vol) ==
    [price |-> price, priceChange24h |-> change, volume24h |-> vol]
NoData == ChartData(0, 0, 0)     \* stands for null / no data

Keys(c) == {c[i].key : i \in 1..Len(c)}
IndexOf(c, k) == CHOOSE i \in 1..Len(c) : c[i].key = k

\* cache.get(k); defined when k is a key of c
MapGet(c, k) == c[IndexOf(c, k)]

\* cache.set(k, v): an existing key keeps its place, a new key goes last
MapSet(c, e) ==
    IF e.key \in Keys(c) THEN [c EXCEPT ![IndexOf(c, e.key)] = e]
    ELSE Append(c, e)

\* getCachedData: the data of a fresh entry, else null
getCachedDataInclusive(c, k, t) ==
    IF k \in Keys(c) /\ t - MapGet(c, k).timestamp <= CACHE_TTL
    THEN MapGet(c, k).data ELSE NoData

getCachedData(c, k, t) ==
    IF k \in Keys(c) /\ t - MapGet(c, k).timestamp < CACHE_TTL
    THEN MapGet(c, k).data ELSE NoData

\* entries.sort((a, b) => b[1].timestamp - a[1].timestamp): a stable sort,
\* newest first; entries of one timestamp keep their order.
RECURSIVE SortNewestFirst(_)
InsertByTimestamp(sorted, e) ==
    LET n == Cardinality({i \in 1..Len(sorted) : sorted[i].timestamp >= e.timestamp})
    IN  SubSeq(sorted, 1, n) \o <<e>> \o SubSeq(sorted, n + 1, Len(sorted))
SortNewestFirst(c) ==
    IF c = <<>> THEN <<>>
    ELSE InsertByTimestamp(SortNewestFirst(SubSeq(c, 1, Len(c) - 1)), c[Len(c)])

\* setCachedData: set, then keep the first MaxEntries of the sorted entries
setCachedData(c, k, d, t) ==
    LET c1 == MapSet(c, Entry(k, d, t))
    IN  IF Len(c1) > MaxEntries
        THEN SubSeq(SortNewestFirst(c1), 1, MaxEntries)
        ELSE c1

\* What the upstream call of a /chart request may answer.
ChartPair(price) ==
    Pair(Num(5), price, Num(7), Num(3), "DS", "DN", Undef, Undef)

ChartOutcomes ==
    {DexFail("neterr", 0), DexFail("timeout", 0), DexFail("badjson", 200),
     DexFail("status", 429), DexFail("status", 500)}
    \cup {DexOk(<<>>)}
    \cup {DexOk(<<ChartPair(p)>>) : p \in {Undef, Num(0), Num(-1), Num(2)}}
    \cup {DexOk(<<ChartPair(Num(0)), Decoy(Num(5))>>)}

\* No upstream call was made.
NoUpstream == DexFail("none", 0)

\* A /chart response.  kind names the return statement that sent it, cached
\* and warning are the two fields added to stale data; upstream (history) is
\* the answer of the upstream call the request made, or NoUpstream.
ChartResponse(addr, status, kind, data, cached, warning, upstream) ==
    [addr |-> addr, status |-> status, kind |-> kind, data |-> data,
     cached |-> cached, warning |-> warning, up |-> upstream]
NoChartResp == ChartResponse(NoAddr, 0, "none", NoData, FALSE, "", NoUpstream)

\* cache.get(tokenAddress) of the two fallback paths: the entry of any age
StaleCacheFresh(c, k, t) == getCachedData(c, k, t)
StaleCache(c, k, t) == IF k \in Keys(c) THEN MapGet(c, k).data ELSE NoData

\* A non-2xx answer.
ChartNotOk(c, a, o, t) ==
    IF o.status = 429
    THEN IF StaleCache(c, a, t) # NoData
         THEN ChartResponse(a, 200, "stale", StaleCache(c, a, t), TRUE,
                            "Rate limited, returning cached data", o)
         ELSE ChartResponse(a, 429, "error", NoData, FALSE, "", o)
    ELSE ChartResponse(a, o.status, "error", NoData, FALSE, "", o)

\* The catch block: fetch or response.json() rejected.
ChartCatch(c, a, o, t) ==
    IF StaleCache(c, a, t) # NoData
    THEN ChartResponse(a, 200, "stale", StaleCache(c, a, t), TRUE,
                       "Error fetching fresh data, returning cached data", o)
    ELSE ChartResponse(a, 500, "error", NoData, FALSE, "", o)

\* if (currentPrice === 0)
InvalidPriceNever(price) == FALSE
InvalidPrice(price) == price = 0

\* The handler from the answer of `await fetch` on: the response it sends and
\* the cache it leaves.
ChartAfterFetch(c, a, o, t) ==
    IF o.kind \in {"neterr", "timeout", "badjson"}
    THEN [resp |-> ChartCatch(c, a, o, t), cache |-> c]
    ELSE IF o.kind = "status"
    THEN [resp |-> ChartNotOk(c, a, o, t), cache |-> c]
    ELSE IF Len(o.pairs) = 0
    THEN [resp |-> ChartResponse(a, 404, "error", NoData, FALSE, "", o),
          cache |-> c]
    ELSE LET bestPair == BestPair(o.pairs)
             currentPrice == ParseFloatOr0(bestPair.priceUsd)
             priceChange24h == ParseFloatOr0(bestPair.h24)
             volume24h == ParseFloatOr0(bestPair.vol)
             result == ChartData(currentPrice, priceChange24h, volume24h)
         IN  IF InvalidPrice(currentPrice)
             THEN [resp |-> ChartResponse(a, 400, "error", NoData, FALSE, "", o),
                   cache |-> c]
             ELSE [resp |-> ChartResponse(a, 200, "fresh", result, FALSE, "", o),
                   cache |-> setCachedData(c, a, result, t)]

InflightCount(r) ==
    LET RECURSIVE Sum(_)
        Sum(S) == IF S = {} THEN 0
                  ELSE LET x == CHOOSE x \in S : TRUE IN r[x] + Sum(S \ {x})
    IN  Sum(Addrs)

\* GET without ?address=: 400 before the cache is read.
ChartBadRequest ==
    /\ chartResp = NoChartResp
    /\ chartResp' = ChartResponse(NoAddr, 400, "badrequest", NoData, FALSE, "",
                                  NoUpstream)
    /\ UNCHANGED <<cache, now, chartReqs, lastPut>>

\* GET up to the cache check: a fresh entry is returned as it is.
ChartCacheHit(a) ==
    /\ chartResp = NoChartResp
    /\ getCachedData(cache, a, now) # NoData
    /\ chartResp' = ChartResponse(a, 200, "hit", getCachedData(cache, a, now),
                                  FALSE, "", NoUpstream)
    /\ UNCHANGED <<cache, now, chartReqs, lastPut>>

\* GET up to `await fetch`: no fresh entry, the request waits for upstream.
ChartCacheMiss(a) ==
    /\ getCachedData(cache, a, now) = NoData
    /\ InflightCount(chartReqs) < MaxInflight
    /\ chartReqs' = [chartReqs EXCEPT ![a] = @ + 1]
    /\ UNCHANGED <<cache, now, chartResp, lastPut>>

\* GET from the upstream answer to its return.
ChartResume(a, o) ==
    /\ chartResp = NoChartResp
    /\ chartReqs[a] > 0
    /\ LET r == ChartAfterFetch(cache, a, o, now)
       IN  /\ chartResp' = r.resp
           /\ cache' = r.cache
           /\ lastPut' = IF r.resp.kind = "fresh"
                         THEN [lastPut EXCEPT ![a] = Entry(a, r.resp.data, now)]
                         ELSE lastPut
    /\ chartReqs' = [chartReqs EXCEPT ![a] = @ - 1]
    /\ UNCHANGED now

\* The response has gone out.
ChartSent ==
    /\ chartResp # NoChartResp
    /\ chartResp' = NoChartResp
    /\ UNCHANGED <<cache, now, chartReqs, lastPut>>

Tick ==
    /\ now + TickMs <= MaxNow
    /\ now' = now + TickMs
    /\ UNCHANGED <<cache, chartReqs, chartResp, lastPut>>

(***************************************************************************)
(* The stream route (part_001): one session, i.e. one run of               *)
(* start(controller) with its closure variables.  The frames enqueued are  *)
(* kept in `events`; the timestamp of an update frame is left out.         *)
(***************************************************************************)
MaxEvents == 4
MaxPolls  == 3

Snapshot(supply, price, decimals) ==
    [supply |-> supply, price |-> price, decimals |-> decimals]

Event(type, snap, marketCap, change, vol, message) ==
    [type |-> type, supply |-> snap.supply, price |-> snap.price,
     decimals |-> snap.decimals, marketCap |-> marketCap,
     change24h |-> change, volume24h |-> vol, message |-> message]

ConnectedEventAsKeepalive ==
    Event("keepalive", Snapshot(0, 0, 0), 0, 0, 0, "")
ConnectedEvent == Event("connected", Snapshot(0, 0, 0), 0, 0, 0,
                        "Connected to Jupiter token stream")
KeepaliveEvent == Event("keepalive", Snapshot(0, 0, 0), 0, 0, 0, "")
ErrorEventWithSnapshot ==
    Event("error", Snapshot(1, 1, 9), 1, 0, 0,
          "No price data available from any source")
ErrorEvent     == Event("error", Snapshot(0, 0, 0), 0, 0, 0,
                        "No price data available from any source")

\* sendEvent: nothing once isClosed; an enqueue on a closed controller
\* throws and is swallowed.
sendEventAlways(evts, closed, ctrlClosed, e) == Append(evts, e)
sendEvent(evts, closed, ctrlClosed, e) ==
    IF closed THEN evts
    ELSE IF ctrlClosed THEN evts
    ELSE Append(evts, e)

\* hasChanges || lastData.price === 0
ShouldSendAlways(last, cur) == TRUE
ShouldSend(last, cur) ==
    \/ cur.price # last.price
    \/ cur.supply # last.supply
    \/ cur.decimals # last.decimals
    \/ last.price = 0

\* pollTokenData from the answer of `await fetchTokenData` on: the session's
\* lastData and events afterwards.  r is what fetchTokenData gave.
PollAfterFetch(last, evts, closed, ctrlClosed, r) ==
    IF r.thrown
    THEN [lastData |-> last,
          events |-> sendEvent(evts, closed, ctrlClosed, ErrorEvent)]
    ELSE LET currentPrice  == r.price
             currentSupply == r.supply
             decimals      == r.decimals
             marketCap == IF currentPrice > 0 /\ currentSupply > 0
                          THEN currentPrice * currentSupply ELSE 0
             cur == Snapshot(currentSupply, currentPrice, decimals)
         IN  IF ShouldSend(last, cur)
             THEN [lastData |-> cur,
                   events |-> sendEvent(evts, closed, ctrlClosed,
                                 Event("update", cur, marketCap, r.change24h,
                                       r.volume24h, ""))]
             ELSE [lastData |-> last, events |-> evts]

\* The upstream outcomes a poll of the session may meet.
StreamPair(price, fdv, mcap) ==
    Pair(Num(5), price, Num(7), Num(3), "DS", "DN", fdv, mcap)

StreamInputs ==
    {Request("A", k, d, j, b, OvFail("neterr")) :
        k \in BOOLEAN,
        d \in {DexFail("neterr", 0),
               DexOk(<<StreamPair(Num(2), Num(8), Undef)>>),
               DexOk(<<StreamPair(Num(2), Undef, Num(6))>>),
               DexOk(<<StreamPair(Num(0), Num(8), Undef)>>)},
        j \in {JupFail("status"), JupData(Num(3), Num(6), Num(2), "JS", "JN")},
        b \in {BirdFail("timeout"), BirdBody(TRUE, Num(5), Undef)}}

InitialData == Snapshot(0, 0, 9)

\* GET without ?token=: 400, no stream.
StreamBadRequest ==
    /\ pc = "none"
    /\ pc' = "badrequest"
    /\ UNCHANGED <<isClosed, pollInterval, keepAliveInterval, abortListener,
                   aborted, controllerClosed, lastData, events, inflight,
                   pollsStarted>>

\* GET with a token: start(controller) up to `await pollTokenData()`, i.e. the
\* connected frame and the initial poll up to its `await fetchTokenData`.
StreamStart ==
    /\ pc = "none"
    /\ pc' = "initialPoll"
    /\ isClosed' = FALSE
    /\ pollInterval' = FALSE
    /\ lastData' = InitialData
    /\ events' = sendEvent(events, FALSE, controllerClosed, ConnectedEvent)
    /\ inflight' = {1}
    /\ pollsStarted' = 1
    /\ UNCHANGED <<keepAliveInterval, abortListener, aborted, controllerClosed>>

\* A poll resumes with the result of fetchTokenData and runs to its end.  The
\* initial poll is awaited by start(), which then arms both intervals and
\* registers the abort listener.
PollResume(i, u) ==
    /\ i \in inflight
    /\ Len(events) < MaxEvents
    /\ fetched' = fetchTokenData(u)
    /\ LET r == PollAfterFetch(lastData, events, isClosed, controllerClosed,
                               fetchTokenData(u))
       IN  /\ lastData' = r.lastData
           /\ events' = r.events
    /\ inflight' = inflight \ {i}
    /\ IF pc = "initialPoll"
       THEN /\ pc' = "running"
            /\ pollInterval' = TRUE
            /\ keepAliveInterval' = TRUE
            /\ abortListener' = TRUE
       ELSE UNCHANGED <<pc, pollInterval, keepAliveInterval, abortListener>>
    /\ UNCHANGED <<isClosed, aborted, controllerClosed, pollsStarted>>

\* The 5 s interval fires: pollTokenData up to `await fetchTokenData`.
PollTimer ==
    /\ pollInterval
    /\ pollsStarted < MaxPolls
    /\ IF isClosed
       THEN UNCHANGED <<inflight, pollsStarted>>
       ELSE /\ inflight' = inflight \cup {pollsStarted + 1}
            /\ pollsStarted' = pollsStarted + 1
    /\ UNCHANGED <<pc, isClosed, pollInterval, keepAliveInterval,
                   abortListener, aborted, controllerClosed, lastData, events>>

\* The 30 s interval fires.
KeepAliveTimer ==
    /\ keepAliveInterval
    /\ Len(events) < MaxEvents
    /\ events' = IF ~isClosed
                 THEN sendEvent(events, isClosed, controllerClosed, KeepaliveEvent)
                 ELSE events
    /\ UNCHANGED <<pc, isClosed, pollInterval, keepAliveInterval,
                   abortListener, aborted, controllerClosed, lastData,
                   inflight, pollsStarted>>

\* The client disconnects: request.signal aborts, once.  The listener, when
\* it is registered by then, closes the session.  Without the listener the
\* session's own state stays as it is; whether the runtime cancels the
\* stream, so that a later enqueue throws, is not decided by this code.
ClientAbort ==
    /\ pc \in {"initialPoll", "running"}
    /\ ~aborted
    /\ aborted' = TRUE
    /\ IF abortListener
       THEN /\ isClosed' = TRUE
            /\ pollInterval' = FALSE
            /\ keepAliveInterval' = FALSE
            /\ controllerClosed' = TRUE
       ELSE /\ controllerClosed' \in BOOLEAN
            /\ UNCHANGED <<isClosed, pollInterval, keepAliveInterval>>
    /\ UNCHANGED <<pc, abortListener, lastData, events, inflight, pollsStarted>>

(***************************************************************************)
(* The stream client (jupiter-client.ts, createTokenSSEStream): one        *)
(* consumer instance.  eventSource is "null" or the readyState of the      *)
(* EventSource the closure holds.  The browser reports a lost connection   *)
(* by an error event with readyState CONNECTING (it retries by itself) and *)
(* a refused one (non-200 answer, wrong content type) by an error event    *)
(* with readyState CLOSED.                                                 *)
(***************************************************************************)
maxReconnectAttempts == 10
MaxCalls   == 1
MaxRefresh == 1

Min(a, b) == IF a < b THEN a ELSE b

\* Math.min(1000 * Math.pow(2, reconnectAttempts), 30000)
ReconnectDelay(attempts) == Min(1000 * 2 ^ attempts, 30000)

\* reconnectAttempts <= maxReconnectAttempts
MayReconnectAlways(attempts) == TRUE
MayReconnect(attempts) == attempts <= maxReconnectAttempts

NoCalls == [onUpdate |-> 0, onError |-> 0, onConnected |-> 0]
Invoke(c, cb) == [c EXCEPT ![cb] = @ + 1]

MessageTypes == {"connected", "update", "updateNoData", "refresh", "error",
                 "keepalive", "unparsable"}

\* eventSource?.readyState === EventSource.CLOSED
IsClosedStateAlways(readyState) == TRUE
IsClosedState(readyState) == readyState = "CLOSED"

\* The consumer's callbacks: onError is () => setConnectionStatus(
\* "disconnected"), onConnected is () => setConnectionStatus("connected").
StatusAfter(status, before, after) ==
    IF after.onError > before.onError THEN "disconnected"
    ELSE IF after.onConnected > before.onConnected THEN "connected"
    ELSE status

\* The state after the consumer's effect has run: setConnectionStatus(
\* "connecting"), then createTokenSSEStream, whose connect() has run.
ClientCreated ==
    /\ eventSource = "CONNECTING"
    /\ sseIsClosed = FALSE
    /\ reconnectTimeout = 0
    /\ reconnectAttempts = 0
    /\ calls = NoCalls
    /\ terminalErrors = 0
    /\ refreshing = 0
    /\ liveSources = 1
    /\ pendingTimers = 0
    /\ connectionStatus = "connecting"

\* eventSource.onopen
EsOpen ==
    /\ eventSource = "CONNECTING"
    /\ eventSource' = "OPEN"
    /\ reconnectAttempts' = 0
    /\ UNCHANGED <<sseIsClosed, reconnectTimeout, calls, terminalErrors,
                   refreshing, liveSources, pendingTimers, connectionStatus>>

\* eventSource.onmessage with a frame of type ty
EsMessage(ty) ==
    /\ eventSource = "OPEN"
    /\ IF sseIsClosed THEN UNCHANGED <<calls, refreshing>>
       ELSE CASE ty = "connected" ->
                    /\ calls.onConnected < MaxCalls
                    /\ calls' = Invoke(calls, "onConnected")
                    /\ UNCHANGED refreshing
              [] ty = "update" ->
                    /\ calls.onUpdate < MaxCalls
                    /\ calls' = Invoke(calls, "onUpdate")
                    /\ UNCHANGED refreshing
              [] ty = "refresh" ->
                    /\ refreshing < MaxRefresh
                    /\ refreshing' = refreshing + 1
                    /\ UNCHANGED calls
              [] ty = "error" ->
                    /\ calls.onError < MaxCalls
                    /\ calls' = Invoke(calls, "onError")
                    /\ UNCHANGED refreshing
              [] OTHER -> UNCHANGED <<calls, refreshing>>
    /\ connectionStatus' = StatusAfter(connectionStatus, calls, calls')
    /\ UNCHANGED <<eventSource, sseIsClosed, reconnectTimeout,
                   reconnectAttempts, terminalErrors, liveSources,
                   pendingTimers>>

\* The fetch a `refresh` frame started settles: .then(fullData => ...)
RefreshDone(ok) ==
    /\ refreshing > 0
    /\ ok => calls.onUpdate < MaxCalls
    /\ refreshing' = refreshing - 1
    /\ calls' = IF ok THEN Invoke(calls, "onUpdate") ELSE calls
    /\ UNCHANGED <<eventSource, sseIsClosed, reconnectTimeout,
                   reconnectAttempts, terminalErrors, liveSources,
                   pendingTimers, connectionStatus>>

\* eventSource.onerror; refused: the browser has closed the source and its
\* readyState is CLOSED, otherwise it retries by itself and the readyState
\* is CONNECTING.
EsError(refused) ==
    /\ eventSource \in {"CONNECTING", "OPEN"}
    /\ ~refused => eventSource = "OPEN"
    /\ liveSources' = IF refused THEN liveSources - 1 ELSE liveSources
    /\ LET readyState == IF refused THEN "CLOSED" ELSE "CONNECTING"
       IN  IF ~IsClosedState(readyState)
           THEN /\ eventSource' = readyState
                /\ UNCHANGED <<reconnectTimeout, reconnectAttempts, calls,
                               terminalErrors, pendingTimers>>
           ELSE /\ eventSource' = "null"
                /\ IF sseIsClosed
                   THEN UNCHANGED <<reconnectTimeout, reconnectAttempts,
                                    calls, terminalErrors, pendingTimers>>
                   ELSE /\ reconnectAttempts' = reconnectAttempts + 1
                        /\ IF MayReconnect(reconnectAttempts + 1)
                           THEN /\ reconnectTimeout' =
                                       ReconnectDelay(reconnectAttempts + 1)
                                /\ pendingTimers' = pendingTimers + 1
                                /\ UNCHANGED <<calls, terminalErrors>>
                           ELSE /\ calls' = Invoke(calls, "onError")
                                /\ terminalErrors' = terminalErrors + 1
                                /\ UNCHANGED <<reconnectTimeout, pendingTimers>>
    /\ connectionStatus' = StatusAfter(connectionStatus, calls, calls')
    /\ UNCHANGED <<sseIsClosed, refreshing>>

\* The reconnect timer fires: connect()
ReconnectTimer ==
    /\ reconnectTimeout # 0
    /\ reconnectTimeout' = 0
    /\ pendingTimers' = pendingTimers - 1
    /\ IF sseIsClosed
       THEN UNCHANGED <<eventSource, liveSources>>
       ELSE /\ eventSource' = "CONNECTING"
            /\ liveSources' = liveSources + 1
    /\ UNCHANGED <<sseIsClosed, reconnectAttempts, calls, terminalErrors,
                   refreshing, connectionStatus>>

\* The function createTokenSSEStream returned is called: the tracker's
\* effect cleanup.
Dispose ==
    /\ ~sseIsClosed
    /\ sseIsClosed' = TRUE
    /\ reconnectTimeout' = 0
    /\ pendingTimers' = IF reconnectTimeout # 0 THEN pendingTimers - 1
                        ELSE pendingTimers
    /\ eventSource' = "null"
    /\ liveSources' = IF eventSource # "null" THEN liveSources - 1
                      ELSE liveSources
    /\ UNCHANGED <<reconnectAttempts, calls, terminalErrors, refreshing,
                   connectionStatus>>


(***************************************************************************)
(* The stream consumers: the WaifuTracker component (waifu-tracker.tsx)    *)
(* and the useTokenStream hook (page.tsx).  One mounted instance; its      *)
(* TokenState is a record of the fields below, NoToken standing for null.  *)
(* A stream update is a Partial<TokenData>: the set of the fields it       *)
(* carries and their values.  The browser's clock advances in steps of     *)
(* ClientTickMs.                                                           *)
(***************************************************************************)
UPDATE_THROTTLE_MS == 500
debounceMs         == 500
ClientTickMs   == 100
MaxClientTicks == 6

Consumers == {"tracker", "hook"}
Tracked   == {"A", "B"}
Fields    == {"address", "supply", "price", "marketCap", "change24h"}

Token(address, supply, price, marketCap, change) ==
    [address |-> address, supply |-> supply, price |-> price,
     marketCap |-> marketCap, change24h |-> change]
NoToken == Token("<null>", 0, 0, 0, 0)

Partial(has, t) == [has |-> has, vals |-> t]
NoPartial == Partial({}, NoToken)

\* price > 0 && supply > 0 ? price * supply : 0
MarketCapOf(price, supply) ==
    IF price > 0 /\ supply > 0 THEN price * supply ELSE 0

\* The data of the stream route's update frames: no address.
ServerUpdates ==
    {Partial({"supply", "price", "marketCap", "change24h"},
             Token("<null>", sp, pr, MarketCapOf(pr, sp), 10)) :
        sp \in {0, 3}, pr \in {1, 2}}

\* Other frames the wire can carry: a market cap that is not price * supply,
\* single fields, and a full record (what a `refresh` hands to onUpdate).
WireUpdates ==
    {Partial({"supply", "price", "marketCap", "change24h"},
             Token("<null>", 0, 2, 7, 10)),
     Partial({"change24h"}, Token("<null>", 0, 0, 0, 20)),
     Partial({"supply"}, Token("<null>", 0, 0, 0, 0)),
     Partial(Fields, Token("A", 3, 1, 3, 10))}

UpdateInputs == ServerUpdates \cup WireUpdates

\* What fetchTokenData of jupiter-client.ts resolves to for address a; the
\* empty set of fields stands for null.
FetchResults(a) ==
    {NoPartial} \cup
    {Partial(Fields, Token(a, sp, pr, MarketCapOf(pr, sp), 0)) :
        sp \in {0, 3}, pr \in {2}}

\* The debounce window of the consumer.
Window(c) == IF c = "tracker" THEN UPDATE_THROTTLE_MS ELSE debounceMs

\* now - lastUpdateRef.current < window
ThrottledInclusive(nowMs, last, window) == nowMs - last <= window
Throttled(nowMs, last, window) == nowMs - last < window

\* { ...prev, ...updatedData }
Merge(prev, u) ==
    [f \in Fields |-> IF f \in u.has THEN u.vals[f] ELSE prev[f]]

\* The updater of setTokenData in handleRealtimeUpdate.
ApplyUpdate(prev, u) ==
    IF prev = NoToken
    THEN IF "address" \in u.has /\ u.vals.address # "" /\ "supply" \in u.has
         THEN Merge(NoToken, u)
         ELSE NoToken
    ELSE LET merged == Merge(prev, u)
         IN  IF merged.price > 0 /\ merged.supply > 0
             THEN [merged EXCEPT !.marketCap = merged.price * merged.supply]
             ELSE merged

Delivery(kind, u, afterChange) ==
    [kind |-> kind, upd |-> u, afterChange |-> afterChange]

\* The state after the first render and its effects: the initial fetch is
\* in flight.
ConsumerMounted(c) ==
    /\ consumer = c
    /\ contractAddress = "A"
    /\ tokenData = NoToken
    /\ lastUpdateRef = 0
    /\ updateCount = 0
    /\ clientNow = 2 * UPDATE_THROTTLE_MS
    /\ fetching = {"A"}
    /\ delivered = Delivery("none", NoPartial, FALSE)

\* handleRealtimeUpdate(u), called by the stream client's onUpdate
handleRealtimeUpdate(u) ==
    /\ IF Throttled(clientNow, lastUpdateRef, Window(consumer))
       THEN UNCHANGED <<lastUpdateRef, updateCount, tokenData>>
       ELSE /\ lastUpdateRef' = clientNow
            /\ updateCount' = updateCount + 1
            /\ tokenData' = ApplyUpdate(tokenData, u)
    /\ delivered' = Delivery("update", u, FALSE)
    /\ UNCHANGED <<consumer, contractAddress, clientNow, fetching>>

\* fetchTokenInfo / loadInitialData / refresh from the answer of
\* `await fetchTokenData(a)` on: null is ignored, a record replaces the state.
FetchDone(a, r) ==
    /\ a \in fetching
    /\ fetching' = fetching \ {a}
    /\ tokenData' = IF r = NoPartial THEN tokenData ELSE r.vals
    /\ delivered' = Delivery("fetch", r, delivered.afterChange)
    /\ UNCHANGED <<consumer, contractAddress, lastUpdateRef, updateCount,
                   clientNow>>

\* The manual refresh button / refresh(): another fetch of the tracked address
Refresh ==
    /\ contractAddress \notin fetching
    /\ fetching' = fetching \cup {contractAddress}
    /\ delivered' = Delivery("none", NoPartial, delivered.afterChange)
    /\ UNCHANGED <<consumer, contractAddress, tokenData, lastUpdateRef,
                   updateCount, clientNow>>

\* The tracked address changes to b: the effects that depend on it re-run.
\* The tracker clears its state when it holds a record of another address,
\* the hook's cleanup clears it always; both start a fetch of b.
AddressChange(b) ==
    /\ b # contractAddress
    /\ contractAddress' = b
    /\ IF consumer = "hook" \/ (tokenData # NoToken /\ tokenData.address # b)
       THEN tokenData' = NoToken /\ updateCount' = 0
       ELSE UNCHANGED <<tokenData, updateCount>>
    /\ fetching' = fetching \cup {b}
    /\ delivered' = Delivery("address", NoPartial, TRUE)
    /\ UNCHANGED <<consumer, lastUpdateRef, clientNow>>

ClientTick ==
    /\ clientNow + ClientTickMs <=
          2 * UPDATE_THROTTLE_MS + MaxClientTicks * ClientTickMs
    /\ clientNow' = clientNow + ClientTickMs
    /\ delivered' = Delivery("none", NoPartial, delivered.afterChange)
    /\ UNCHANGED <<consumer, contractAddress, tokenData, lastUpdateRef,
                   updateCount, fetching>>


(***************************************************************************)
(* The classification functions of waifu-tracker.tsx.  change24h is held   *)
(* in units of 1/Tenths of a percent, so that 12.5 is 125; prices are      *)
(* integers, and a ratio is held as numerator and positive denominator and *)
(* compared by cross-multiplication.                                       *)
(***************************************************************************)
Tenths == 10

Emotions == {"happy", "excited", "neutral", "worried", "sad", "angry"}
NoEmotion == "null"

getEmotionFromChangeCoarse(change) ==
    IF change > 20 * Tenths THEN "excited"
    ELSE IF change > 5 * Tenths THEN "happy"
    ELSE IF change > -5 * Tenths THEN "neutral"
    ELSE IF change > -30 * Tenths THEN "sad"
    ELSE "angry"

getEmotionFromChangeInclusive(change) ==
    IF change >= 20 * Tenths THEN "excited"
    ELSE IF change >= 5 * Tenths THEN "happy"
    ELSE IF change >= -5 * Tenths THEN "neutral"
    ELSE IF change >= -15 * Tenths THEN "worried"
    ELSE IF change >= -30 * Tenths THEN "sad"
    ELSE "angry"

getEmotionFromChange(change) ==
    IF change > 20 * Tenths THEN "excited"
    ELSE IF change > 5 * Tenths THEN "happy"
    ELSE IF change > -5 * Tenths THEN "neutral"
    ELSE IF change > -15 * Tenths THEN "worried"
    ELSE IF change > -30 * Tenths THEN "sad"
    ELSE "angry"

Ratio(n, d) == [n |-> n, d |-> d]

getEmotionFromShortMoveStrict(diffRatio) ==
    IF diffRatio.n * 100 > diffRatio.d THEN "excited"
    ELSE IF diffRatio.n * 1000 > 3 * diffRatio.d THEN "happy"
    ELSE IF diffRatio.n * 100 < -diffRatio.d THEN "angry"
    ELSE IF diffRatio.n * 1000 < -3 * diffRatio.d THEN "sad"
    ELSE NoEmotion

\* diffRatio >= 0.01, >= 0.003, <= -0.01, <= -0.003
getEmotionFromShortMove(diffRatio) ==
    IF diffRatio.n * 100 >= diffRatio.d THEN "excited"
    ELSE IF diffRatio.n * 1000 >= 3 * diffRatio.d THEN "happy"
    ELSE IF diffRatio.n * 100 <= -diffRatio.d THEN "angry"
    ELSE IF diffRatio.n * 1000 <= -3 * diffRatio.d THEN "sad"
    ELSE NoEmotion

\* prev.price > 0 && merged.price > 0 ? (merged.price - prev.price) / prev.price : 0
ShortMove(prevPrice, mergedPrice) ==
    IF prevPrice > 0 /\ mergedPrice > 0
    THEN Ratio(mergedPrice - prevPrice, prevPrice)
    ELSE Ratio(0, 1)

\* newEmotion of handleRealtimeUpdate on an update merged into an existing
\* state: current is emotionRef.current, change is merged.change24h.
EmotionAfterUpdate(current, prevPrice, mergedPrice, change) ==
    LET shortEmotion == getEmotionFromShortMove(ShortMove(prevPrice, mergedPrice))
    IN  IF shortEmotion # NoEmotion THEN shortEmotion
        ELSE IF Defined(change) THEN getEmotionFromChange(change.n)
        ELSE current

Abs(x) == IF x >= 0 THEN x ELSE -x

\* shouldTriggerMessage(prev, next) for a prev that is not null:
\* priceDelta >= 0.0005 || changeDelta >= 0.05, change24h || 0 for each side.
shouldTriggerMessage(prevPrice, prevChange, nextPrice, nextChange) ==
    IF prevPrice <= 0 \/ nextPrice <= 0 THEN TRUE
    ELSE \/ 2000 * Abs(nextPrice - prevPrice) >= prevPrice
         \/ 20 * Abs(ParseFloatOr0(nextChange) - ParseFloatOr0(prevChange))
               >= Tenths

\* The argument handleRealtimeUpdate calls scheduleMessage with on an update
\* merged into an existing state, NoEmotion when it does not call it.
ScheduledAfterUpdate(current, prevPrice, prevChange, mergedPrice, change) ==
    IF shouldTriggerMessage(prevPrice, prevChange, mergedPrice, change)
    THEN EmotionAfterUpdate(current, prevPrice, mergedPrice, change)
    ELSE NoEmotion

\* The inputs the functions are run on: change24h around each threshold and
\* at 12.5 and -35, prices around each ratio threshold of BasePrice.
BasePrice == 1000
Spread == 5
ChangeSamples ==
    {Undef} \cup {Num(t * Tenths + d) :
                    t \in {-35, -30, -15, -5, 5, 12, 20}, d \in -Spread..Spread}
MoveSteps == {-11, -10, -9, -4, -3, -2, 0, 2, 3, 4, 9, 10, 11}
PriceSamples == {0} \cup {BasePrice + d : d \in MoveSteps}

\* prev.change24h of the state an update is merged into
PrevChangeSamples == {Num(0), Num(5 * Tenths)}

EmotionSample(current, prevPrice, prevChange, price, change) ==
    [current |-> current, prevPrice |-> prevPrice, prevChange |-> prevChange,
     price |-> price, change |-> change]

EmotionInputs ==
    {EmotionSample(e, pp, pc0, p, c) :
        e \in Emotions, pp \in {0, BasePrice}, pc0 \in PrevChangeSamples,
        p \in PriceSamples, c \in ChangeSamples}

NoVerdict == [byChange |-> "none", byMove |-> "none", emotion |-> "none",
              scheduled |-> "none"]

EmotionIdle ==
    /\ sample = EmotionSample("neutral", 0, Num(0), 0, Undef)
    /\ verdict = NoVerdict

\* getEmotionFromChange on the sample's change24h
ClassifyChange ==
    /\ Defined(sample.change)
    /\ verdict.byChange = "none"
    /\ verdict' = [verdict EXCEPT
                     !.byChange = getEmotionFromChange(sample.change.n)]
    /\ UNCHANGED sample

\* getEmotionFromShortMove on the sample's price move
ClassifyMove ==
    /\ verdict.byMove = "none"
    /\ verdict' = [verdict EXCEPT
                     !.byMove = getEmotionFromShortMove(
                                    ShortMove(sample.prevPrice, sample.price))]
    /\ UNCHANGED sample

\* the emotion handleRealtimeUpdate computes on the sample, and its call of
\* scheduleMessage
UpdateEmotion ==
    /\ verdict.emotion = "none"
    /\ verdict' = [verdict EXCEPT
                     !.emotion = EmotionAfterUpdate(sample.current,
                                     sample.prevPrice, sample.price,
                                     sample.change),
                     !.scheduled = ScheduledAfterUpdate(sample.current,
                                     sample.prevPrice, sample.prevChange,
                                     sample.price, sample.change)]
    /\ UNCHANGED sample

(***************************************************************************)
(* The message scheduler of WaifuTracker: scheduleMessage, its timer,      *)
(* generateMessage and the reset of the address effect.  The clock starts  *)
(* one window after lastMessageAtRef's initial 0, as any real Date.now()   *)
(* does, and advances in steps of SchedTickMs.                             *)
(***************************************************************************)
MessageWindowMs == 5000
SchedTickMs     == 2500
MaxSchedTicks   == 3
MaxAnnounced    == 3
MaxTimers       == 2
SchedEmotions   == {"neutral", "happy"}

Timer(id, due) == [id |-> id, due |-> due]
NoTimer == Timer(0, 0)

Max(a, b) == IF a >= b THEN a ELSE b

Message(text, emotion) == [text |-> text, emotion |-> emotion]

\* The canned lines, two of each pool.
MOCK_RESPONSES ==
    [excited |-> {"excited-1", "excited-2"},
     happy   |-> {"happy-1", "happy-2"},
     neutral |-> {"neutral-1", "neutral-2"},
     worried |-> {"worried-1", "worried-2"},
     sad     |-> {"sad-1", "sad-2"},
     angry   |-> {"angry-1", "angry-2"}]

\* prev.slice(-9)
LastN(seq, n) ==
    IF Len(seq) <= n THEN seq ELSE SubSeq(seq, Len(seq) - n + 1, Len(seq))

addMessage(prev, newEmotion, text) ==
    Append(LastN(prev, 9), Message(text, newEmotion))

\* What the browser's fetch of /api/generate-message gives: "neterr" rejects,
\* "status" is a non-2xx answer, "badjson" is a 2xx answer whose json()
\* rejects, "ok" is a 2xx answer with a JSON body and its message field.
Reply(kind, status, message) ==
    [kind |-> kind, status |-> status, message |-> message]

Replies ==
    {Reply("neterr", 0, ""), Reply("status", 402, ""),
     Reply("status", 500, ""),
     Reply("badjson", 200, ""), Reply("ok", 200, ""),
     Reply("ok", 200, "generated")}

\* The addMessage calls of generateMessage(newEmotion) on the reply r, in
\* order; line is the canned line Math.random picks.
generateMessageNoReturn(newEmotion, r, line) ==
    IF r.kind = "ok" /\ r.message # ""
    THEN <<Message(r.message, newEmotion), Message(line, newEmotion)>>
    ELSE <<Message(line, newEmotion)>>

generateMessage(newEmotion, r, line) ==
    IF r.kind = "ok" /\ r.message # ""
    THEN <<Message(r.message, newEmotion)>>
    ELSE <<Message(line, newEmotion)>>

RECURSIVE AddAll(_, _)
AddAll(prev, added) ==
    IF added = <<>> THEN prev
    ELSE AddAll(addMessage(prev, Head(added).emotion, Head(added).text),
                Tail(added))

Announcement(emotion, at) ==
    [kind |-> "announce", emotion |-> emotion, at |-> at]
Reset(at) == [kind |-> "reset", emotion |-> NoEmotion, at |-> at]

\* elapsed >= 5000 && !messageTimerRef.current
SendNowAlways(elapsed, timerRef) == TRUE
SendNow(elapsed, timerRef) ==
    elapsed >= MessageWindowMs /\ timerRef = NoTimer

Settled(id, reply) == [id |-> id, reply |-> reply]
NoneSettled == Settled(0, Reply("none", 0, ""))

SchedulerMounted ==
    /\ settled = NoneSettled
    /\ schedNow = MessageWindowMs
    /\ lastMessageAtRef = 0
    /\ lastMessageEmotionRef = NoEmotion
    /\ pendingEmotionRef = NoEmotion
    /\ messageTimerRef = NoTimer
    /\ timers = {}
    /\ timerSeq = 0
    /\ messages = <<>>
    /\ generating = {}
    /\ announced = <<>>
    /\ lastCall = "none"
    /\ quiet = FALSE

\* lastMessageAtRef, lastMessageEmotionRef := now, e; void generateMessage(e)
Announce(e) ==
    /\ lastMessageAtRef' = schedNow
    /\ lastMessageEmotionRef' = e
    /\ announced' = Append(announced, Announcement(e, schedNow))
    /\ generating' = generating \cup {Len(announced) + 1}

scheduleMessage(newEmotion) ==
    /\ ~quiet
    /\ Len(announced) < MaxAnnounced
    /\ timerSeq < MaxTimers
    /\ lastCall' = newEmotion
    /\ UNCHANGED <<schedNow, messages, quiet, settled>>
    /\ IF lastMessageEmotionRef = newEmotion
       THEN UNCHANGED <<lastMessageAtRef, lastMessageEmotionRef,
                        pendingEmotionRef, messageTimerRef, timers, timerSeq,
                        generating, announced>>
       ELSE /\ pendingEmotionRef' = newEmotion
            /\ LET elapsed == schedNow - lastMessageAtRef
               IN  IF SendNow(elapsed, messageTimerRef)
                   THEN /\ Announce(newEmotion)
                        /\ UNCHANGED <<messageTimerRef, timers, timerSeq>>
                   ELSE IF messageTimerRef # NoTimer
                   THEN UNCHANGED <<lastMessageAtRef, lastMessageEmotionRef,
                                    messageTimerRef, timers, timerSeq,
                                    generating, announced>>
                   ELSE LET delay == Max(0, MessageWindowMs - elapsed)
                            t == Timer(timerSeq + 1, schedNow + delay)
                        IN  /\ messageTimerRef' = t
                            /\ timers' = timers \cup {t}
                            /\ timerSeq' = timerSeq + 1
                            /\ UNCHANGED <<lastMessageAtRef,
                                           lastMessageEmotionRef, generating,
                                           announced>>

\* The callback of the timeout t, run once its delay has passed.
TimerFires(t) ==
    /\ t \in timers
    /\ schedNow >= t.due
    /\ timers' = timers \ {t}
    /\ messageTimerRef' = NoTimer
    /\ LET pending == pendingEmotionRef
       IN  IF pending = NoEmotion \/ pending = lastMessageEmotionRef
           THEN UNCHANGED <<lastMessageAtRef, lastMessageEmotionRef,
                            generating, announced>>
           ELSE Announce(pending)
    /\ UNCHANGED <<schedNow, pendingEmotionRef, timerSeq, messages, lastCall,
                   quiet, settled>>

\* A generateMessage call resumes from `await fetch` with the reply r.
GenerateDone(i, r, line) ==
    /\ i \in generating
    /\ line \in MOCK_RESPONSES[announced[i].emotion]
    /\ generating' = generating \ {i}
    /\ settled' = Settled(i, r)
    /\ messages' = AddAll(messages,
                          generateMessage(announced[i].emotion, r, line))
    /\ UNCHANGED <<schedNow, lastMessageAtRef, lastMessageEmotionRef,
                   pendingEmotionRef, messageTimerRef, timers, timerSeq,
                   announced, lastCall, quiet>>

\* The address effect on a change of contractAddress while a token of another
\* address is shown; the fetch it starts calls scheduleMessage when it settles.
SchedAddressChange ==
    /\ ~quiet
    /\ Len(announced) < MaxAnnounced
    /\ messages' = <<>>
    /\ lastMessageEmotionRef' = NoEmotion
    /\ timers' = timers \ {messageTimerRef}
    /\ messageTimerRef' = NoTimer
    /\ announced' = Append(announced, Reset(schedNow))
    /\ lastCall' = "none"
    /\ UNCHANGED <<schedNow, lastMessageAtRef, pendingEmotionRef, timerSeq,
                   generating, quiet, settled>>

\* Time passes; it is followed up to the bound, and up to a pending timer.
SchedTick ==
    /\ \/ schedNow < MessageWindowMs + MaxSchedTicks * SchedTickMs
       \/ \E t \in timers : schedNow < t.due
    /\ schedNow' = schedNow + SchedTickMs
    /\ UNCHANGED <<lastMessageAtRef, lastMessageEmotionRef, pendingEmotionRef,
                   messageTimerRef, timers, timerSeq, messages, generating,
                   announced, lastCall, quiet, settled>>

\* From here on no scheduleMessage call and no address change follows.
Quiesce ==
    /\ ~quiet
    /\ quiet' = TRUE
    /\ UNCHANGED <<schedNow, lastMessageAtRef, lastMessageEmotionRef,
                   pendingEmotionRef, messageTimerRef, timers, timerSeq,
                   messages, generating, announced, lastCall, settled>>

(***************************************************************************)
(* POST /api/generate-message.  A completion's content is a sequence of    *)
(* characters, so that trim() has something to strip.                      *)
(***************************************************************************)
\* content.trim()
RECURSIVE TrimLeft(_)
TrimLeft(c) == IF c # <<>> /\ Head(c) = " " THEN TrimLeft(Tail(c)) ELSE c
RECURSIVE TrimRight(_)
TrimRight(c) ==
    IF c # <<>> /\ c[Len(c)] = " " THEN TrimRight(SubSeq(c, 1, Len(c) - 1))
    ELSE c
Trim(c) == TrimRight(TrimLeft(c))

\* The upstream's answer: "neterr" rejects the fetch, "status" is a non-2xx
\* answer, "badjson" a 2xx answer whose json() rejects, "ok" a 2xx answer
\* with a JSON body; has says whether choices[0].message.content is there.
Completion(kind, status, has, content) ==
    [kind |-> kind, status |-> status, has |-> has, content |-> content]

\* body: "ok", "badjson" (request.json() rejects) or "nochange" (change24h
\* is not a number, so change24h.toFixed throws); key: an API key is set.
GenRequest(body, key, upstream) ==
    [body |-> body, key |-> key, upstream |-> upstream]

GenResponse(status, message, error) ==
    [status |-> status, message |-> message, error |-> error]

NoGenResp == GenResponse(0, <<>>, "none")

\* The status of the answer to an upstream non-2xx answer other than 402.
UpstreamErrorStatus(status) == status

POST(q) ==
    IF q.body = "badjson" THEN GenResponse(500, <<>>, "Internal server error")
    ELSE IF ~q.key THEN GenResponse(500, <<>>, "API key not configured")
    ELSE IF q.body = "nochange"
    THEN GenResponse(500, <<>>, "Internal server error")
    ELSE IF q.upstream.kind = "neterr"
    THEN GenResponse(500, <<>>, "Internal server error")
    ELSE IF q.upstream.kind = "status"
    THEN IF q.upstream.status = 402
         THEN GenResponse(402, <<>>, "insufficient_credits")
         ELSE GenResponse(UpstreamErrorStatus(q.upstream.status), <<>>,
                          "Failed to generate message")
    ELSE IF q.upstream.kind = "badjson"
    THEN GenResponse(500, <<>>, "Internal server error")
    ELSE LET message == IF q.upstream.has THEN Trim(q.upstream.content)
                        ELSE <<>>
         IN  IF message = <<>>
             THEN GenResponse(500, <<>>, "No message generated")
             ELSE GenResponse(200, message, "")

UpstreamStatuses == {400, 401, 402, 403, 404, 429, 500, 502, 503}

Completions ==
    {Completion("neterr", 0, FALSE, <<>>), Completion("badjson", 200, FALSE, <<>>),
     Completion("ok", 200, FALSE, <<>>), Completion("ok", 200, TRUE, <<>>),
     Completion("ok", 200, TRUE, <<" ", " ">>),
     Completion("ok", 200, TRUE, <<" ", "h", "i", " ">>)}
    \cup {Completion("status", st, FALSE, <<>>) : st \in UpstreamStatuses}

GenInputs ==
    {GenRequest(b, k, c) :
        b \in {"ok", "badjson", "nochange"}, k \in BOOLEAN, c \in Completions}

GenerateIdle ==
    /\ genReq = GenRequest("ok", FALSE, Completion("neterr", 0, FALSE, <<>>))
    /\ genResp = NoGenResp

\* POST /api/generate-message on the request genReq
GenerateRequest ==
    /\ genResp = NoGenResp
    /\ genResp' = POST(genReq)
    /\ UNCHANGED genReq

(***************************************************************************)
(* Several sessions of the stream route.  Each GET runs start(controller)  *)
(* with its own closure: pollTokenData is called once at once and then by  *)
(* the session's own setInterval, and every call of it calls               *)
(* fetchTokenData, which starts with a request to the first provider.      *)
(***************************************************************************)
POLL_INTERVAL_MS == 5000
SessTickMs  == 2500
MaxSessTicks == 3
MaxRounds   == 4
SessionIds  == {1, 2}
SessAddrs   == {"A", "B"}

Session(addr, nextPoll) == [addr |-> addr, nextPoll |-> nextPoll]
NoSession == Session("", 0)

Round(session, addr, at) == [session |-> session, addr |-> addr, at |-> at]

SessionsIdle ==
    /\ sessions = [s \in SessionIds |-> NoSession]
    /\ sessNow = 0
    /\ rounds = <<>>

\* GET /stream?token=a: the initial pollTokenData, then setInterval
SessionStart(s, a) ==
    /\ sessions[s] = NoSession
    /\ Len(rounds) < MaxRounds
    /\ sessions' = [sessions EXCEPT ![s] = Session(a, sessNow + POLL_INTERVAL_MS)]
    /\ rounds' = Append(rounds, Round(s, a, sessNow))
    /\ UNCHANGED sessNow

\* The session's interval fires: pollTokenData
SessionPoll(s) ==
    /\ sessions[s] # NoSession
    /\ sessNow >= sessions[s].nextPoll
    /\ Len(rounds) < MaxRounds
    /\ sessions' = [sessions EXCEPT
                      ![s].nextPoll = sessions[s].nextPoll + POLL_INTERVAL_MS]
    /\ rounds' = Append(rounds, Round(s, sessions[s].addr, sessNow))
    /\ UNCHANGED sessNow

\* The client of the session disconnects: clearInterval
SessionAbort(s) ==
    /\ sessions[s] # NoSession
    /\ sessions' = [sessions EXCEPT ![s] = NoSession]
    /\ UNCHANGED <<sessNow, rounds>>

SessTick ==
    /\ sessNow < MaxSessTicks * SessTickMs
    /\ sessNow' = sessNow + SessTickMs
    /\ UNCHANGED <<sessions, rounds>>

UiIdle == EmotionIdle /\ SchedulerMounted /\ GenerateIdle /\ SessionsIdle

(***************************************************************************)
(* The specifications.                                                     *)
(***************************************************************************)
AggIdle ==
    /\ priceResp = NoResp
    /\ fetched = NoFetch

ChartIdle ==
    /\ cache = <<>>
    /\ now = 0
    /\ chartReqs = [a \in Addrs |-> 0]
    /\ chartResp = NoChartResp
    /\ lastPut = [a \in Addrs |-> Entry(a, NoData, 0)]

StreamIdle ==
    /\ pc = "none"
    /\ isClosed = FALSE
    /\ pollInterval = FALSE
    /\ keepAliveInterval = FALSE
    /\ abortListener = FALSE
    /\ aborted = FALSE
    /\ controllerClosed = FALSE
    /\ lastData = InitialData
    /\ events = <<>>
    /\ inflight = {}
    /\ pollsStarted = 0

\* GET /api/token-price on the request `up`
PriceRequest ==
    /\ priceResp = NoResp
    /\ priceResp' = PriceGET(up)
    /\ UNCHANGED <<up, fetched>>

\* fetchTokenData on the request `up`
StreamFetch ==
    /\ up.addr # ""
    /\ fetched = NoFetch
    /\ fetched' = fetchTokenData(up)
    /\ UNCHANGED <<up, priceResp>>

InitAgg == up \in AggInputs /\ AggIdle /\ ChartIdle /\ StreamIdle
           /\ ClientCreated /\ ConsumerMounted("tracker") /\ UiIdle
NextAgg ==
    \/ PriceRequest /\ UNCHANGED <<chartVars, streamVars, frontVars>>
    \/ StreamFetch /\ UNCHANGED <<chartVars, streamVars, frontVars>>
SpecAgg == InitAgg /\ [][NextAgg]_vars

AnyRequest == Request("", FALSE, DexOk(<<>>), JupNoData, BirdFail("neterr"),
                      OvFail("neterr"))

InitChart == up = AnyRequest /\ AggIdle /\ ChartIdle /\ StreamIdle
             /\ ClientCreated /\ ConsumerMounted("tracker") /\ UiIdle
NextChart ==
    \/ ChartBadRequest /\ UNCHANGED <<aggVars, streamVars, frontVars>>
    \/ \E a \in Addrs : ChartCacheHit(a) /\ UNCHANGED <<aggVars, streamVars, frontVars>>
    \/ \E a \in Addrs : ChartCacheMiss(a) /\ UNCHANGED <<aggVars, streamVars, frontVars>>
    \/ \E a \in Addrs, o \in ChartOutcomes :
            ChartResume(a, o) /\ UNCHANGED <<aggVars, streamVars, frontVars>>
    \/ ChartSent /\ UNCHANGED <<aggVars, streamVars, frontVars>>
    \/ Tick /\ UNCHANGED <<aggVars, streamVars, frontVars>>
SpecChart == InitChart /\ [][NextChart]_vars

InitStream == up = AnyRequest /\ AggIdle /\ ChartIdle /\ StreamIdle
              /\ ClientCreated /\ ConsumerMounted("tracker") /\ UiIdle
NextStream ==
    \/ StreamBadRequest /\ UNCHANGED <<aggVars, chartVars, frontVars>>
    \/ StreamStart /\ UNCHANGED <<aggVars, chartVars, frontVars>>
    \/ \E i \in inflight, u \in StreamInputs :
            PollResume(i, u) /\ UNCHANGED <<up, priceResp, chartVars, frontVars>>
    \/ PollTimer /\ UNCHANGED <<aggVars, chartVars, frontVars>>
    \/ KeepAliveTimer /\ UNCHANGED <<aggVars, chartVars, frontVars>>
    \/ ClientAbort /\ UNCHANGED <<aggVars, chartVars, frontVars>>
SpecStream == InitStream /\ [][NextStream]_vars

InitClient == up = AnyRequest /\ AggIdle /\ ChartIdle /\ StreamIdle
              /\ ClientCreated /\ ConsumerMounted("tracker") /\ UiIdle
NextClient ==
    \/ EsOpen /\ UNCHANGED <<aggVars, chartVars, streamVars, consumerVars, uiVars>>
    \/ \E ty \in MessageTypes :
            EsMessage(ty) /\ UNCHANGED <<aggVars, chartVars, streamVars, consumerVars, uiVars>>
    \/ \E ok \in BOOLEAN :
            RefreshDone(ok) /\ UNCHANGED <<aggVars, chartVars, streamVars, consumerVars, uiVars>>
    \/ \E refused \in BOOLEAN :
            EsError(refused) /\ UNCHANGED <<aggVars, chartVars, streamVars, consumerVars, uiVars>>
    \/ ReconnectTimer /\ UNCHANGED <<aggVars, chartVars, streamVars, consumerVars, uiVars>>
    \/ Dispose /\ UNCHANGED <<aggVars, chartVars, streamVars, consumerVars, uiVars>>
SpecClient == InitClient /\ [][NextClient]_vars

InitConsumer == /\ up = AnyRequest /\ AggIdle /\ ChartIdle /\ StreamIdle
                /\ ClientCreated
                /\ \E c \in Consumers : ConsumerMounted(c)
                /\ UiIdle
NextConsumer ==
    \/ \E u \in UpdateInputs :
            handleRealtimeUpdate(u) /\ UNCHANGED <<aggVars, chartVars, streamVars, clientVars, uiVars>>
    \/ \E a \in Tracked : \E r \in FetchResults(a) :
            FetchDone(a, r) /\ UNCHANGED <<aggVars, chartVars, streamVars, clientVars, uiVars>>
    \/ Refresh /\ UNCHANGED <<aggVars, chartVars, streamVars, clientVars, uiVars>>
    \/ \E b \in Tracked :
            AddressChange(b) /\ UNCHANGED <<aggVars, chartVars, streamVars, clientVars, uiVars>>
    \/ ClientTick /\ UNCHANGED <<aggVars, chartVars, streamVars, clientVars, uiVars>>
SpecConsumer == InitConsumer /\ [][NextConsumer]_vars

backVars == <<aggVars, chartVars, streamVars, clientVars, consumerVars>>
BackIdle == /\ up = AnyRequest /\ AggIdle /\ ChartIdle /\ StreamIdle
            /\ ClientCreated /\ ConsumerMounted("tracker")

InitEmotion == /\ BackIdle /\ SchedulerMounted /\ GenerateIdle
               /\ SessionsIdle
               /\ sample \in EmotionInputs
               /\ verdict = NoVerdict
NextEmotion ==
    \/ ClassifyChange /\ UNCHANGED <<backVars, sessionVars, schedVars, genVars>>
    \/ ClassifyMove /\ UNCHANGED <<backVars, sessionVars, schedVars, genVars>>
    \/ UpdateEmotion /\ UNCHANGED <<backVars, sessionVars, schedVars, genVars>>
SpecEmotion == InitEmotion /\ [][NextEmotion]_vars

InitScheduler == BackIdle /\ UiIdle
NextScheduler ==
    \/ \E e \in SchedEmotions :
            scheduleMessage(e) /\ UNCHANGED <<backVars, sessionVars, emotionVars, genVars>>
    \/ \E t \in timers :
            TimerFires(t) /\ UNCHANGED <<backVars, sessionVars, emotionVars, genVars>>
    \/ \E i \in generating, r \in Replies :
            \E line \in MOCK_RESPONSES[announced[i].emotion] :
                GenerateDone(i, r, line)
                /\ UNCHANGED <<backVars, sessionVars, emotionVars, genVars>>
    \/ SchedAddressChange /\ UNCHANGED <<backVars, sessionVars, emotionVars, genVars>>
    \/ SchedTick /\ UNCHANGED <<backVars, sessionVars, emotionVars, genVars>>
    \/ Quiesce /\ UNCHANGED <<backVars, sessionVars, emotionVars, genVars>>
SpecScheduler == InitScheduler /\ [][NextScheduler]_vars

\* The browser runs a timeout once its delay has passed, time passes, and a
\* fetch settles.
SchedulerFairness ==
    /\ WF_vars((\E t \in timers : TimerFires(t))
               /\ UNCHANGED <<backVars, sessionVars, emotionVars, genVars>>)
    /\ WF_vars(SchedTick /\ UNCHANGED <<backVars, sessionVars, emotionVars, genVars>>)
    /\ WF_vars((\E i \in generating, r \in Replies :
                  \E line \in MOCK_RESPONSES[announced[i].emotion] :
                      GenerateDone(i, r, line))
               /\ UNCHANGED <<backVars, sessionVars, emotionVars, genVars>>)
SpecSchedulerFair ==
    InitScheduler /\ [][NextScheduler]_vars /\ SchedulerFairness

InitGenerate == /\ BackIdle /\ EmotionIdle /\ SchedulerMounted
                /\ SessionsIdle
                /\ genReq \in GenInputs
                /\ genResp = NoGenResp
NextGenerate ==
    GenerateRequest /\ UNCHANGED <<backVars, sessionVars, emotionVars, schedVars>>
SpecGenerate == InitGenerate /\ [][NextGenerate]_vars

InitSessions == BackIdle /\ UiIdle
NextSessions ==
    \/ \E s \in SessionIds, a \in SessAddrs :
            SessionStart(s, a)
            /\ UNCHANGED <<backVars, emotionVars, schedVars, genVars>>
    \/ \E s \in SessionIds :
            SessionPoll(s)
            /\ UNCHANGED <<backVars, emotionVars, schedVars, genVars>>
    \/ \E s \in SessionIds :
            SessionAbort(s)
            /\ UNCHANGED <<backVars, emotionVars, schedVars, genVars>>
    \/ SessTick /\ UNCHANGED <<backVars, emotionVars, schedVars, genVars>>
SpecSessions == InitSessions /\ [][NextSessions]_vars

\* All together.
Init == InitAgg
Next == NextAgg \/ NextChart \/ NextStream \/ NextClient \/ NextConsumer
        \/ NextEmotion \/ NextScheduler \/ NextGenerate \/ NextSessions
Spec == Init /\ [][Next]_vars

(***************************************************************************)
(* What each provider yields on a request, read off its answer alone,      *)
(* and the first provider in the order DexScreener, Jupiter, Birdeye that  *)
(* yields a price > 0.                                                     *)
(***************************************************************************)
Yield(source, price, change, vol, sym, name) ==
    [source |-> source, price |-> price, change24h |-> change,
     volume24h |-> vol, symbol |-> sym, name |-> name]
NoYield(source) == Yield(source, 0, 0, 0, NULL, NULL)

DexYield(u) ==
    IF DexHasPairs(u.dex)
    THEN LET b == BestPair(u.dex.pairs)
         IN  Yield("dexscreener", ParseFloatOr0(b.priceUsd),
                   ParseFloatOr0(b.h24), ParseFloatOr0(b.vol),
                   OrNull(b.symbol), OrNull(b.name))
    ELSE NoYield("dexscreener")

JupYield(u) ==
    IF JupHasData(u.jup)
    THEN Yield("jupiter", ParseFloatOr0(u.jup.price),
               ParseFloatOr0(u.jup.change), ParseFloatOr0(u.jup.vol),
               OrNull(u.jup.symbol), OrNull(u.jup.name))
    ELSE NoYield("jupiter")

BirdYield(u) ==
    IF u.key /\ u.bird.kind = "ok"
    THEN IF u.ov.kind = "ok" /\ u.ov.success
         THEN Yield("birdeye", BirdeyePrice(u.bird), ParseFloatOr0(u.ov.change),
                    ParseFloatOr0(u.ov.vol), NULL, NULL)
         ELSE Yield("birdeye", BirdeyePrice(u.bird), 0, 0, NULL, NULL)
    ELSE NoYield("birdeye")

Providers(u) == <<DexYield(u), JupYield(u), BirdYield(u)>>
SomeYield(u) == \E i \in 1..3 : Providers(u)[i].price > 0
FirstYield(u) ==
    Providers(u)[CHOOSE i \in 1..3 :
                    /\ Providers(u)[i].price > 0
                    /\ \A j \in 1..(i-1) : Providers(u)[j].price <= 0]

\* The upstream calls made when the provider `source` is the first to yield.
CallsUpTo(source) ==
    IF source = "dexscreener" THEN <<"dexscreener">>
    ELSE IF source = "jupiter" THEN <<"dexscreener", "jupiter">>
    ELSE <<"dexscreener", "jupiter", "birdeye", "overview">>

SameNumbers(r, y) ==
    /\ r.source = y.source
    /\ r.price = y.price
    /\ r.change24h = y.change24h
    /\ r.volume24h = y.volume24h

PriceAnswered == priceResp # NoResp /\ up.addr # ""
FetchAnswered == fetched # NoFetch

\* C1: whenever some provider yields price > 0, the result of the /price
\* aggregator and of the stream's fetchTokenData (source, price, change24h,
\* volume24h) is that of the first such provider in the order DexScreener,
\* Jupiter, Birdeye, and no provider after it has been queried.
C1_AggregatorPriority ==
    SomeYield(up) =>
        /\ PriceAnswered =>
              /\ priceResp.success
              /\ SameNumbers(priceResp, FirstYield(up))
              /\ priceResp.queried = CallsUpTo(FirstYield(up).source)
        /\ FetchAnswered =>
              /\ ~fetched.thrown
              /\ SameNumbers(fetched, FirstYield(up))
              /\ fetched.queried = CallsUpTo(FirstYield(up).source)

\* The /price half of C1 alone.
C1_PricePriority ==
    (SomeYield(up) /\ PriceAnswered) =>
        /\ priceResp.success
        /\ SameNumbers(priceResp, FirstYield(up))
        /\ priceResp.queried = CallsUpTo(FirstYield(up).source)

\* The field (symbol or name) DexScreener's best pair carried, or null.
DexField(u, f) == IF f = "symbol" THEN DexYield(u).symbol ELSE DexYield(u).name
JupField(u, f) == IF f = "symbol" THEN JupYield(u).symbol ELSE JupYield(u).name
RespField(r, f) == IF f = "symbol" THEN r.tokenSymbol ELSE r.tokenName
MetaFields == {"symbol", "name"}

\* The winner's own field, and the fields the adapters before it supplied.
OwnField(u, source, f) == IF source = "jupiter" THEN JupField(u, f) ELSE NULL
EarlierFields(u, source, f) ==
    ({DexField(u, f)} \cup (IF source = "birdeye" THEN {JupField(u, f)} ELSE {}))
        \ {NULL}

LaterWinner ==
    /\ PriceAnswered
    /\ priceResp.success
    /\ priceResp.source \in {"jupiter", "birdeye"}

NoYieldAtAll(u) == ~SomeYield(u)

\* C3: a /price request with an address is answered 200 whatever the
\* providers do, with the sentinel success:false, price = change24h =
\* volume24h = 0 when no provider yields price > 0; a request is answered
\* otherwise than 200 only when it has no address, and then 400.
C3_PriceAlways200 ==
    priceResp # NoResp =>
        /\ up.addr # "" => priceResp.status = 200
        /\ (up.addr # "" /\ NoYieldAtAll(up)) =>
              /\ priceResp.body = "data"
              /\ ~priceResp.success
              /\ priceResp.price = 0
              /\ priceResp.change24h = 0
              /\ priceResp.volume24h = 0
        /\ priceResp.status # 200 =>
              priceResp.status = 400 /\ up.addr = ""

\* All three providers fail, each in another way, and the sentinel is sent.
C3_Witness ==
    /\ PriceAnswered
    /\ up.dex.kind = "neterr" /\ up.jup.kind = "status"
    /\ up.key /\ up.bird.kind = "badjson"
    /\ priceResp.status = 200 /\ ~priceResp.success /\ priceResp.price = 0

(***************************************************************************)
(* The /chart cache.                                                       *)
(***************************************************************************)
Written(a) == lastPut[a].data # NoData
Age(a) == now - lastPut[a].timestamp

\* C4: a snapshot with price 0 (no usable price) is never cached or
\* forwarded: every /chart cache entry, every /price response with
\* success:true and every update event of a stream session has price > 0.
C4_OnlyPositivePrices ==
    /\ \A i \in 1..Len(cache) : cache[i].data.price > 0
    /\ (priceResp # NoResp /\ priceResp.success) => priceResp.price > 0
    /\ \A i \in 1..Len(events) :
           events[i].type = "update" => events[i].price > 0

PutStep == chartResp = NoChartResp /\ chartResp'.kind = "fresh"

\* C6: after every put the cache holds at most MaxEntries entries and still
\* holds the entry just written; a put that makes it MaxEntries + 1 entries
\* evicts exactly one entry, one of smallest write time (the key just put
\* counting with the time of this put).
C6_EvictsOldestKeepsNewest ==
    [][PutStep =>
        LET a  == chartResp'.addr
            K1 == Keys(cache) \cup {a}
            written(k) == IF k = a THEN now ELSE MapGet(cache, k).timestamp
        IN  /\ Len(cache') <= MaxEntries
            /\ a \in Keys(cache')
            /\ MapGet(cache', a) = Entry(a, chartResp'.data, now)
            /\ IF Cardinality(K1) > MaxEntries
               THEN \E k \in K1 :
                       /\ \A j \in K1 : written(k) <= written(j)
                       /\ Keys(cache') = K1 \ {k}
               ELSE Keys(cache') = K1]_vars

\* The step in which a request that went upstream sends its response.
AnswerStep == chartResp = NoChartResp /\ chartResp'.up # NoUpstream

Rejected(o) == o.kind \in {"neterr", "timeout", "badjson"}
RateLimited(o) == o.kind = "status" /\ o.status = 429

\* C7: when the upstream call answers 429 or rejects, the response is, if the
\* cache holds an entry of the address, of any age, 200 with that entry's
\* data, cached:true and a warning; it is an error (429, respectively 500)
\* only when the cache holds no entry of the address; the cache is left as
\* it was.
C7_StaleFallback ==
    [][(AnswerStep /\ (Rejected(chartResp'.up) \/ RateLimited(chartResp'.up))) =>
        LET a == chartResp'.addr
        IN  /\ cache' = cache
            /\ IF a \in Keys(cache)
               THEN /\ chartResp'.status = 200
                    /\ chartResp'.data = MapGet(cache, a).data
                    /\ chartResp'.cached
                    /\ chartResp'.warning # ""
               ELSE /\ chartResp'.status =
                          IF RateLimited(chartResp'.up) THEN 429 ELSE 500
                    /\ chartResp'.data = NoData
                    /\ ~chartResp'.cached]_vars

\* A 429 is answered from an entry older than the TTL.
C7_Witness ==
    /\ chartResp.kind = "stale"
    /\ RateLimited(chartResp.up)
    /\ chartResp.status = 200
    /\ chartResp.addr \in Keys(cache)
    /\ now - MapGet(cache, chartResp.addr).timestamp >= CACHE_TTL
    /\ chartResp.data = MapGet(cache, chartResp.addr).data

ZeroPairs(o) == o.kind = "ok" /\ Len(o.pairs) = 0
ZeroPrice(o) ==
    /\ o.kind = "ok"
    /\ Len(o.pairs) > 0
    /\ ParseFloatOr0(BestPair(o.pairs).priceUsd) = 0

\* C8: a 2xx upstream answer with zero pairs gives 404, one whose best pair
\* has price exactly 0 gives 400, and a request without address gives 400
\* with no upstream call and no cache read; none of them changes the cache.
C8_NoDataOutcomes ==
    [][/\ (AnswerStep /\ ZeroPairs(chartResp'.up)) =>
            chartResp'.status = 404 /\ cache' = cache
       /\ (AnswerStep /\ ZeroPrice(chartResp'.up)) =>
            chartResp'.status = 400 /\ cache' = cache
       /\ (chartResp = NoChartResp /\ chartResp' # NoChartResp
              /\ chartResp'.addr = NoAddr) =>
            /\ chartResp'.status = 400
            /\ chartResp'.up = NoUpstream
            /\ chartResp'.data = NoData
            /\ cache' = cache /\ chartReqs' = chartReqs]_vars

\* With a full cache, a body whose best pair has price 0 is answered 400.
C8_Witness ==
    /\ ZeroPrice(chartResp.up)
    /\ Len(chartResp.up.pairs) = 2
    /\ chartResp.status = 400
    /\ Len(cache) = MaxEntries

(***************************************************************************)
(* The stream session.                                                     *)
(***************************************************************************)
EventTypes == [i \in 1..Len(events) |-> events[i].type]

\* C9: the first event of a session is `connected`; it is emitted before the
\* first poll starts and before any update, error or keepalive event.
C9_ConnectedFirst ==
    /\ pollsStarted > 0 => Len(events) >= 1
    /\ events # <<>> => /\ events[1].type = "connected"
                        /\ events[1].message # ""
    /\ \A i \in 2..Len(events) :
           events[i].type \in {"update", "error", "keepalive"}

\* A session that has sent connected, then an update and a keepalive.
C9_Witness ==
    /\ Len(events) >= 3
    /\ events[1].type = "connected"
    /\ events[2].type = "update"
    /\ \E i \in 3..Len(events) : events[i].type = "keepalive"

\* The step in which a poll completes with a snapshot.
PollOk == inflight' # inflight /\ inflight' \subseteq inflight
          /\ ~fetched'.thrown
Polled == Snapshot(fetched'.supply, fetched'.price, fetched'.decimals)
NoUpdateYet == \A i \in 1..Len(events) : events[i].type # "update"
Emitted ==
    /\ Len(events') = Len(events) + 1
    /\ SubSeq(events', 1, Len(events)) = events
    /\ events'[Len(events')].type = "update"
    /\ Snapshot(events'[Len(events')].supply, events'[Len(events')].price,
                events'[Len(events')].decimals) = Polled
Triple(e) == Snapshot(e.supply, e.price, e.decimals)
UpdatesDiffer ==
    \A i, j \in 1..Len(events) :
        (/\ i < j
         /\ events[i].type = "update" /\ events[j].type = "update"
         /\ \A k \in (i + 1)..(j - 1) : events[k].type # "update")
        => Triple(events[i]) # Triple(events[j])

\* C10 as claimed: a successfully completed poll emits an update if and only
\* if its (price, supply, decimals) differs from lastData or no update has
\* been sent on the session yet; on emission lastData becomes that triple; no
\* two consecutive updates carry the same triple.
C10_DiffAsClaimed ==
    /\ [][PollOk =>
            /\ Emitted <=> (Polled # lastData \/ NoUpdateYet)
            /\ Emitted => lastData' = Polled
            /\ ~Emitted => events' = events]_vars
    /\ []UpdatesDiffer

\* C10 amended: a successfully completed poll of a session that is still
\* open (not closed by the abort handler, its stream still accepting frames)
\* emits an update if and only if its triple differs from lastData or no
\* update has been sent yet; a poll completing on a closed session emits
\* nothing; in both cases lastData is that triple afterwards; no two
\* consecutive updates carry the same triple.
C10_DiffWhileOpen ==
    /\ [][PollOk =>
            /\ Emitted <=> (/\ ~isClosed /\ ~controllerClosed
                            /\ (Polled # lastData \/ NoUpdateYet))
            /\ lastData' = Polled
            /\ ~Emitted => events' = events]_vars
    /\ []UpdatesDiffer

\* Three polls of an open session have completed: the first emitted, one
\* brought the same triple and was suppressed, one brought another triple.
C10_Witness ==
    /\ pollsStarted = 3 /\ inflight = {}
    /\ ~isClosed /\ ~controllerClosed
    /\ EventTypes = <<"connected", "update", "update">>
    /\ lastData = Triple(events[3])

\* The step in which a poll completes by throwing.
PollThrew == inflight' # inflight /\ inflight' \subseteq inflight
             /\ fetched'.thrown
SessionOpen == ~isClosed /\ ~controllerClosed
MessageOnly(e) ==
    /\ e.message # ""
    /\ Triple(e) = Snapshot(0, 0, 0)
    /\ e.marketCap = 0 /\ e.change24h = 0 /\ e.volume24h = 0

\* C11: a poll that throws on an open session emits exactly one error event
\* carrying only a message, leaves lastData as it was, leaves the session
\* open and the poll timer armed; isClosed becomes true only in a step in
\* which the client aborts.
C11_PollErrorsNonFatal ==
    /\ [][PollThrew =>
            /\ lastData' = lastData
            /\ isClosed' = isClosed /\ controllerClosed' = controllerClosed
            /\ SessionOpen =>
                  /\ Len(events') = Len(events) + 1
                  /\ SubSeq(events', 1, Len(events)) = events
                  /\ events'[Len(events')].type = "error"
                  /\ MessageOnly(events'[Len(events')])
                  /\ pollInterval']_vars
    /\ [][(isClosed' /\ ~isClosed) => (aborted' /\ ~aborted)]_vars

\* An open session on which a poll threw and a later poll sent an update.
C11_Witness ==
    /\ SessionOpen
    /\ pollInterval
    /\ \E i, j \in 1..Len(events) :
           i < j /\ events[i].type = "error" /\ events[j].type = "update"

\* C12: at whatever point of a session the client aborts, afterwards neither
\* timer is armed and no further poll is started.
C12_CleanupOnDisconnect ==
    /\ [](aborted => ~pollInterval /\ ~keepAliveInterval)
    /\ [][aborted => pollsStarted' = pollsStarted]_vars

\* C13: from the moment the session is opened the keepalive timer is armed,
\* also while the initial poll awaits its upstream calls.
C13_KeepaliveIndependent ==
    (pc \in {"initialPoll", "running"} /\ ~aborted) => keepAliveInterval

\* C14: once the abort listener has run, the session state is a fixed point
\* of the listener (closed, both timers cleared, controller closed), it
\* stays so, no event of any type is emitted and no poll is started, also
\* when a poll in flight at the abort completes.
C14_ClosedIsTerminal ==
    /\ [](isClosed => /\ aborted /\ controllerClosed
                       /\ ~pollInterval /\ ~keepAliveInterval)
    /\ [][isClosed => /\ isClosed'
                       /\ events' = events
                       /\ pollsStarted' = pollsStarted]_vars

\* A closed session on which a poll in flight at the abort has completed
\* with a new snapshot: lastData is no longer that of the last update sent.
C14_Witness ==
    /\ isClosed
    /\ inflight = {}
    /\ Len(events) >= 2
    /\ events[Len(events)].type = "update"
    /\ lastData # Triple(events[Len(events)])

(***************************************************************************)
(* The stream client.                                                      *)
(***************************************************************************)
\* C15: the delay before the k-th consecutive reconnect attempt, k = 1..10,
\* is min(1000 * 2^(k-1), 30000) ms: 1 s, 2 s, 4 s, 8 s, 16 s, then 30 s.
C15_BackoffSchedule ==
    reconnectTimeout # 0 =>
        /\ reconnectAttempts \in 1..maxReconnectAttempts
        /\ reconnectTimeout =
              Min(1000 * 2 ^ (reconnectAttempts - 1), 30000)

\* The step in which the browser reports the connection as lost or refused.
TransportError ==
    /\ eventSource \in {"CONNECTING", "OPEN"}
    /\ eventSource' \in {"null", "CONNECTING"}
    /\ eventSource' # eventSource
    /\ sseIsClosed' = sseIsClosed
BudgetExhausted == reconnectAttempts > maxReconnectAttempts

\* C16: a reconnect timer is armed only for the attempts 1..10 counted since
\* the last successful open; the transport error after the 10th failed
\* attempt invokes onError once, as the terminal error; from then on no
\* timer is armed, no connection exists or is made and onError is not
\* invoked again; a transport error before that invokes no callback.
C16_BoundedRetry ==
    /\ [](reconnectTimeout # 0 => reconnectAttempts \in 1..maxReconnectAttempts)
    /\ [](reconnectAttempts <= maxReconnectAttempts + 1)
    /\ [](terminalErrors = IF BudgetExhausted THEN 1 ELSE 0)
    /\ [](BudgetExhausted => reconnectTimeout = 0 /\ eventSource = "null")
    /\ [][BudgetExhausted =>
            (BudgetExhausted' /\ calls'.onError = calls.onError)]_vars
    /\ [][(TransportError /\ ~BudgetExhausted') => calls' = calls]_vars
    /\ [][(TransportError /\ ~BudgetExhausted /\ BudgetExhausted') =>
            calls' = Invoke(calls, "onError")]_vars

\* Ten reconnects have failed in a row and the terminal error was raised.
C16_Witness ==
    /\ BudgetExhausted
    /\ terminalErrors = 1
    /\ calls.onError >= 1
    /\ ~sseIsClosed

\* C17: after the returned function has been called no callback is invoked
\* and no connection is made, whatever completes afterwards.
C17_DisposedIsSilent ==
    /\ [](sseIsClosed => eventSource = "null" /\ reconnectTimeout = 0)
    /\ [][sseIsClosed => calls' = calls]_vars

(***************************************************************************)
(* The stream consumers.                                                   *)
(***************************************************************************)
\* The step in which a stream update reaches the consumer, and whether the
\* consumer took it.
UpdateArrives == delivered'.kind = "update"
Accepted == UpdateArrives /\ lastUpdateRef' # lastUpdateRef
SinceLastAccepted == clientNow - lastUpdateRef

\* C18: an update arriving less than the window (500 ms) after the last
\* accepted one is dropped: TokenState, the update counter, the
\* last-accepted time and the pending fetches are left as they were, so
\* nothing of it is applied later; an update arriving at or after the window
\* is accepted: it is counted, stamped and its fields are in the state.
C18_Debounce ==
    [][UpdateArrives =>
        IF SinceLastAccepted < Window(consumer)
        THEN /\ tokenData' = tokenData
             /\ updateCount' = updateCount
             /\ lastUpdateRef' = lastUpdateRef
             /\ fetching' = fetching
        ELSE /\ lastUpdateRef' = clientNow
             /\ updateCount' = updateCount + 1
             /\ tokenData # NoToken =>
                   \A f \in delivered'.upd.has \ {"marketCap"} :
                       tokenData'[f] = delivered'.upd.vals[f]]_vars

\* Of two updates ClientTickMs apart the first was applied and the second,
\* which differs from it, was not.
C18_Witness ==
    /\ delivered.kind = "update"
    /\ SinceLastAccepted = ClientTickMs
    /\ updateCount = 1
    /\ tokenData # NoToken
    /\ \E f \in delivered.upd.has : delivered.upd.vals[f] # tokenData[f]

\* C19: the first stream update after the tracked address has changed is
\* accepted, however recently an update of the previous address was.
C19_DebounceResetOnAddressChange ==
    [][(UpdateArrives /\ delivered.afterChange) =>
        (lastUpdateRef' = clientNow /\ updateCount' = updateCount + 1)]_vars

\* The step in which the consumer takes a stream update or a fetched record.
StateWritten ==
    \/ Accepted
    \/ delivered'.kind = "fetch" /\ delivered'.upd # NoPartial

Rank(e) ==
    CASE e = "angry" -> 0 [] e = "sad" -> 1 [] e = "worried" -> 2
      [] e = "neutral" -> 3 [] e = "happy" -> 4 [] e = "excited" -> 5

ChangeClassified == verdict.byChange # "none"

\* C21: for every change24h exactly one of the six emotions is returned:
\* excited above 20, else happy above 5, else neutral above -5, else worried
\* above -15, else sad above -30, else angry; and no smaller change24h is
\* classified higher along angry < sad < worried < neutral < happy < excited.
C21_ClassificationCascade ==
    ChangeClassified =>
        LET c == sample.change.n
            e == verdict.byChange
        IN  /\ e \in Emotions
            /\ (e = "excited") = (c > 20 * Tenths)
            /\ (e = "happy")   = (c <= 20 * Tenths /\ c > 5 * Tenths)
            /\ (e = "neutral") = (c <= 5 * Tenths /\ c > -5 * Tenths)
            /\ (e = "worried") = (c <= -5 * Tenths /\ c > -15 * Tenths)
            /\ (e = "sad")     = (c <= -15 * Tenths /\ c > -30 * Tenths)
            /\ (e = "angry")   = (c <= -30 * Tenths)
            /\ \A o \in ChangeSamples :
                   (Defined(o) /\ o.n <= c)
                       => Rank(getEmotionFromChange(o.n)) <= Rank(e)

\* 12.5 has been classified happy
C21_Witness ==
    /\ ChangeClassified
    /\ 2 * sample.change.n = 25 * Tenths
    /\ verdict.byChange = "happy"

AtFive == Defined(sample.change) /\ sample.change.n = 5 * Tenths

EmotionUpdated == verdict.emotion # "none"
BothPositive == sample.prevPrice > 0 /\ sample.price > 0
\* 1000 * (new - prev) and 1000 * prev: the ratio is their quotient
Move1000 == 1000 * (sample.price - sample.prevPrice)
Prev1000 == 1000 * sample.prevPrice

\* C23: on an update merged into a state, previous and new price positive, a
\* ratio (new - prev) / prev >= 0.01 gives excited, else >= 0.003 happy,
\* <= -0.01 angry, else <= -0.003 sad, whatever change24h is; with the ratio
\* strictly between -0.003 and 0.003, or a price not positive, the emotion is
\* the 24h classification of the merged change24h when there is one.
C23_ShortMovePrecedence ==
    EmotionUpdated =>
        LET e == verdict.emotion
            by24h == Defined(sample.change)
                           => e = getEmotionFromChange(sample.change.n)
        IN  IF BothPositive
            THEN /\ (Move1000 >= 10 * sample.prevPrice) => e = "excited"
                 /\ (Move1000 < 10 * sample.prevPrice
                       /\ Move1000 >= 3 * sample.prevPrice) => e = "happy"
                 /\ (Move1000 <= -10 * sample.prevPrice) => e = "angry"
                 /\ (Move1000 > -10 * sample.prevPrice
                       /\ Move1000 <= -3 * sample.prevPrice) => e = "sad"
                 /\ (Move1000 > -3 * sample.prevPrice
                       /\ Move1000 < 3 * sample.prevPrice) => by24h
            ELSE by24h

\* a move of exactly one percent has overridden a 24h change of -35
C23_Witness ==
    /\ EmotionUpdated
    /\ BothPositive
    /\ Move1000 = 10 * sample.prevPrice
    /\ Defined(sample.change) /\ sample.change.n = -35 * Tenths
    /\ verdict.emotion = "excited"


(***************************************************************************)
(* The message scheduler.                                                  *)
(***************************************************************************)
IsAnnouncement(a) == a.kind = "announce"
Announcements == SelectSeq(announced, IsAnnouncement)

Spaced ==
    \A i, j \in 1..Len(Announcements) :
        i < j => Announcements[j].at - Announcements[i].at >= MessageWindowMs

OneTimer ==
    /\ Cardinality(timers) <= 1
    /\ timers = IF messageTimerRef = NoTimer THEN {} ELSE {messageTimerRef}

\* C24 as stated: announcements are at least 5 s apart, at most one timer is
\* pending, and no announcement repeats the emotion of the one before it.
C24_NeverRepeats ==
    /\ Spaced
    /\ OneTimer
    /\ \A i \in 1..(Len(Announcements) - 1) :
           Announcements[i].emotion # Announcements[i + 1].emotion

\* C24: announcements are at least 5 s apart, at most one timer is pending,
\* and no announcement repeats the emotion of the one before it unless the
\* address changed in between.
C24_RateLimit ==
    /\ Spaced
    /\ OneTimer
    /\ \A i \in 1..(Len(announced) - 1) :
           (IsAnnouncement(announced[i]) /\ IsAnnouncement(announced[i + 1]))
               => announced[i].emotion # announced[i + 1].emotion

\* two announcements, one of them made by the timer, and an address change
C24_Witness ==
    /\ Len(Announcements) >= 2
    /\ timerSeq > 0
    /\ timers = {}
    /\ \E i \in 1..Len(announced) : ~IsAnnouncement(announced[i])

\* The step is the callback of the pending timer.
TimerFired ==
    /\ messageTimerRef # NoTimer
    /\ messageTimerRef' = NoTimer
    /\ lastCall' = lastCall

\* C25: when the timer fires, the announcement it makes carries the argument
\* of the latest scheduleMessage call, and it makes none if that argument is
\* the last announced emotion.
C25_BurstCarriesLastCall ==
    [][TimerFired =>
          IF lastCall = lastMessageEmotionRef
          THEN announced' = announced
          ELSE announced' = Append(announced, Announcement(lastCall, schedNow))]_vars

\* C26: once the calls have stopped, the last one having been
\* scheduleMessage(E) on the address shown, eventually no timer is pending
\* and the last announced emotion is E.
C26_EventualAnnouncement ==
    (quiet /\ lastCall # "none")
        ~> (messageTimerRef = NoTimer /\ lastMessageEmotionRef = lastCall)

\* The step resumes the generateMessage call i.
Resumed(i) == i \in generating /\ i \notin generating'

Answered == genResp # NoGenResp
\* The upstream was called and answered with the status st.
UpstreamAnswered(st) ==
    /\ genReq.body = "ok" /\ genReq.key
    /\ genReq.upstream.kind = "status" /\ genReq.upstream.status = st

\* C28: the response status is 200 with a message, 402 exactly when the
\* upstream answered 402, and a 5xx status otherwise; no other 4xx status is
\* ever returned.
C28_StatusContract ==
    Answered =>
        /\ genResp.status \in {200, 402} \cup 500..599
        /\ genResp.status = 200 => genResp.message # <<>>
        /\ (genResp.status = 402) = UpstreamAnswered(402)


(***************************************************************************)
(* Provider failures and the Birdeye key.                                  *)
(***************************************************************************)
\* Each provider's answer that holds no data.
DexNoData  == DexOk(<<>>)
BirdNoData == BirdBody(FALSE, Undef, Undef)
OvNoData   == OvBody(FALSE, Undef, Undef)

Failed(o) == o.kind \in FailKinds

\* C29: in /price and in the stream aggregator, a provider call that fails
\* by network error, timeout, non-2xx status or unparsable body gives the
\* result the same request gives when that provider answers with no data,
\* and the failure is not turned into an error of the aggregator.
C29_FailureIsNoData ==
    /\ (priceResp # NoResp /\ up.addr # "") =>
          /\ Failed(up.dex) => priceResp = PriceGET([up EXCEPT !.dex = DexNoData])
          /\ Failed(up.jup) => priceResp = PriceGET([up EXCEPT !.jup = JupNoData])
          /\ Failed(up.bird) => priceResp = PriceGET([up EXCEPT !.bird = BirdNoData])
          /\ Failed(up.ov) => priceResp = PriceGET([up EXCEPT !.ov = OvNoData])
          /\ priceResp.status = 200
    /\ fetched # NoFetch =>
          /\ Failed(up.dex) => fetched = fetchTokenData([up EXCEPT !.dex = DexNoData])
          /\ Failed(up.jup) => fetched = fetchTokenData([up EXCEPT !.jup = JupNoData])
          /\ Failed(up.bird) => fetched = fetchTokenData([up EXCEPT !.bird = BirdNoData])
          /\ Failed(up.ov) => fetched = fetchTokenData([up EXCEPT !.ov = OvNoData])
          /\ fetched.thrown => fetched = FetchThrow(fetched.queried)

\* DexScreener answered 429 with a body of pairs, and both aggregators went
\* on to Jupiter
C29_Witness ==
    /\ up.dex.kind = "status" /\ Len(up.dex.pairs) > 0
    /\ priceResp # NoResp /\ priceResp.source = "jupiter"
    /\ fetched # NoFetch /\ fetched.source = "jupiter"

\* The request with the key set and Birdeye down.
BirdeyeDown == [up EXCEPT !.key = TRUE, !.bird = BirdFail("neterr")]
Drop(r) == [r EXCEPT !.queried = <<>>]
AsksBirdeye(queried) ==
    \E i \in 1..Len(queried) : queried[i] \in {"birdeye", "overview"}

\* C30: without a Birdeye key no request goes to Birdeye, and the result is
\* that of DexScreener then Jupiter alone: what the same request gives with
\* the key set and Birdeye unreachable, the no-data answer of /price and the
\* no-price error of the stream when neither has a price.
C30_BirdeyeGated ==
    (~up.key /\ up.addr # "") =>
        /\ priceResp # NoResp =>
              /\ ~AsksBirdeye(priceResp.queried)
              /\ Drop(priceResp) = Drop(PriceGET(BirdeyeDown))
              /\ priceResp.source \in {"dexscreener", "jupiter", NULL}
              /\ priceResp.status = 200
        /\ fetched # NoFetch =>
              /\ ~AsksBirdeye(fetched.queried)
              /\ Drop(fetched) = Drop(fetchTokenData(BirdeyeDown))
              /\ fetched.source \in {"dexscreener", "jupiter", NULL}

\* no key, neither DexScreener nor Jupiter has a price, and Birdeye would
\* have had one
C30_Witness ==
    /\ ~up.key /\ up.addr # ""
    /\ BirdeyePrice(up.bird) > 0
    /\ priceResp # NoResp /\ ~priceResp.success
    /\ fetched # NoFetch /\ fetched.thrown


(***************************************************************************)
(* Emotion changes and messages.                                           *)
(***************************************************************************)
\* C31: an update that changes the emotion calls scheduleMessage with the
\* new emotion in the same step, however small its price and change24h
\* moves are.
C31_EmotionChangeSchedules ==
    (EmotionUpdated /\ verdict.emotion # sample.current)
        => verdict.scheduled = verdict.emotion


(***************************************************************************)
(* Upstream load of several sessions.                                      *)
(***************************************************************************)
\* C32: polls of one address started within one cache TTL of each other
\* cause one round of upstream calls, not one per session.
C32_OneRoundPerWindow ==
    \A i, j \in 1..Len(rounds) :
        (i < j /\ rounds[i].addr = rounds[j].addr
               /\ rounds[i].session # rounds[j].session)
            => rounds[j].at - rounds[i].at >= CACHE_TTL


(***************************************************************************)
(* The supply a session last sent.                                         *)
(***************************************************************************)
\* C33: once a session has sent a positive supply, no later poll, whichever
\* provider answers it, puts the last-sent supply back to 0.
C33_StickySupply ==
    [][lastData.supply > 0 => lastData'.supply > 0]_vars


(***************************************************************************)
(* Fetches that outlive the address they were started for.                 *)
(***************************************************************************)
\* C34: a fetch that resolves for an address the consumer no longer tracks
\* is not applied: TokenState stays as it was and never holds a record of
\* the address left behind.
C34_StaleFetchDiscarded ==
    [][(delivered'.kind = "fetch"
            /\ \E a \in fetching : a # contractAddress
                                   /\ fetching' = fetching \ {a})
        => /\ tokenData' = tokenData
           /\ tokenData' # NoToken => tokenData'.address = contractAddress]_vars


(***************************************************************************)
(* /chart when the upstream answers with a status other than 2xx.          *)
(***************************************************************************)
\* C35: whatever non-2xx status the upstream answers with, a request whose
\* address has a cache entry is answered 200 with that entry's data marked
\* cached, not with an error that carries the upstream status.
C35_AnyStatusFallsBack ==
    [][(AnswerStep /\ chartResp'.up.kind = "status"
                   /\ chartResp'.addr \in Keys(cache))
        => /\ chartResp'.kind = "stale"
           /\ chartResp'.status = 200
           /\ chartResp'.data = MapGet(cache, chartResp'.addr).data
           /\ chartResp'.cached]_vars


(***************************************************************************)
(* The two aggregators on the same provider answers.                       *)
(***************************************************************************)
\* C36: on the same provider answers the stream's fetchTokenData throws
\* exactly when /price answers success:false, and otherwise returns the
\* price, change24h and volume24h of the /price response.
C36_StreamRefinesPrice ==
    (PriceAnswered /\ FetchAnswered) =>
        /\ fetched.thrown <=> ~priceResp.success
        /\ ~fetched.thrown =>
              /\ fetched.price = priceResp.price
              /\ fetched.change24h = priceResp.change24h
              /\ fetched.volume24h = priceResp.volume24h


(***************************************************************************)
(* One connection at a time.                                               *)
(***************************************************************************)
\* C37: at every moment at most one EventSource is open or connecting and
\* at most one reconnect timer is pending, never both at once; a new
\* EventSource is created only when none is left open or connecting.
C37_SequentialReconnect ==
    /\ [](liveSources + pendingTimers <= 1)
    /\ [](liveSources = (IF eventSource = "null" THEN 0 ELSE 1))
    /\ [](pendingTimers = (IF reconnectTimeout = 0 THEN 0 ELSE 1))
    /\ [][liveSources' > liveSources =>
            (liveSources = 0 /\ pendingTimers = 1 /\ pendingTimers' = 0)]_vars

\* A connection made by the reconnect timer after an earlier one was closed.
C37_Witness ==
    /\ liveSources = 1
    /\ pendingTimers = 0
    /\ reconnectAttempts >= 2
    /\ eventSource = "CONNECTING"

(***************************************************************************)
(* What the consumer shows as the connection status.                       *)
(***************************************************************************)
\* C40: the status is disconnected only once the reconnect budget is
\* exhausted and the terminal error was raised; an error frame of the
\* server on an open stream does not make it disconnected.
C40_DisconnectedOnlyWhenExhausted ==
    connectionStatus = "disconnected" =>
        (terminalErrors > 0 /\ BudgetExhausted)


(***************************************************************************)
(* Polls of one session.                                                   *)
(***************************************************************************)
\* C38: at most one poll of a session is in flight at any moment; the
\* interval starts no poll while the previous one has not finished.
C38_PollsDoNotOverlap == Cardinality(inflight) <= 1


(***************************************************************************)
(* The order of the chat list.                                             *)
(***************************************************************************)
\* C39: messages are appended in the order of their announcements: when the
\* generation of an announcement settles, no earlier announcement is still
\* waiting for its message; the list never holds more than 10 messages.
C39_AnnouncementOrder ==
    /\ [][\A i \in 1..Len(announced) :
            Resumed(i) => \A j \in generating : j >= i]_vars
    /\ [](Len(messages) <= 10)


====
